---- MODULE Spec2Model ----
(***************************************************************************)
(* Pattern aggregation (patterns/pattern_analyzer.py) and multi-factor     *)
(* signal scoring (smart_portfolio_analyzer.py).                           *)
(*                                                                         *)
(* Arithmetic is exact.  Category multipliers 1.5, 1.3, 1.0, 0.8, 0.5 are  *)
(* kept in tenths, so a vote weight is confidence * multiplier * 10.       *)
(* Scores of the scorer are kept in twentieths (the pattern contribution   *)
(* is overall_confidence / 20), and its confidence in tenths (the code     *)
(* rounds it to one decimal).                                              *)
(***************************************************************************)
EXTENDS Integers, Sequences, FiniteSets, TLC

VARIABLES
    pc,               \* position of the analyze_patterns call
    idx,              \* next entry of pattern_detectors to run (1-based)
    all_patterns,     \* local list all_patterns of analyze_patterns
    invoked,          \* detector names whose function has been called
    results,          \* what each detector call of this run returned
    log,              \* detector names printed by the except branch
    vote,             \* weighted_signals and total_weight of the vote
    report,           \* dict returned by analyze_patterns
    market_condition, \* SmartPortfolioAnalyzer.market_condition
    step,             \* position of the generate_enhanced_signals call
    stock_info,       \* stock_data["info"] and the mean daily volume
    holding_info,     \* argument holding_info
    columns,          \* indicator columns present in the frames
    latest_rsi,       \* latest["RSI"] of the daily frame
    pattern_analysis, \* local pattern_analysis
    timeframe_scores, \* local timeframe_scores
    buy_score,        \* local buy_score, in twentieths
    sell_score,       \* local sell_score, in twentieths
    signals,          \* local list signals (the reasons)
    neutral,          \* scores of the same call under regime NEUTRAL
    decision,         \* dict returned by generate_enhanced_signals
    run,              \* position and history of run_complete_analysis
    detect            \* a bar series, the detector run on it and its result

aggVars == <<pc, idx, all_patterns, invoked, results, log, vote, report>>

scoreVars == <<market_condition, step, stock_info, holding_info, columns,
               latest_rsi, pattern_analysis, timeframe_scores, buy_score,
               sell_score, signals, neutral, decision>>

vars == <<pc, idx, all_patterns, invoked, results, log, vote, report,
          market_condition, step, stock_info, holding_info, columns,
          latest_rsi, pattern_analysis, timeframe_scores, buy_score,
          sell_score, signals, neutral, decision, run, detect>>

\* ------------------------------------------------------------------ bounds
\* most patterns one call may collect in all_patterns
MaxFound == 2

\* most patterns the candlestick detector reports in one call here
MaxCandles == 2

\* ------------------------------------------------------------- vocabulary
None == "None"
NoKey == "<no key>"
NoReport == [keys |-> {}]

Signals == {"BUY", "SELL", "HOLD"}

\* PatternAnalyzer.__init__: the registered detectors, in order
pattern_detectors ==
    << "Head and Shoulders", "Inverse Head and Shoulders", "Double Top",
       "Double Bottom", "Triangle Patterns", "Flag Patterns",
       "Pennant Patterns", "Breakout Patterns", "Candlestick Patterns" >>

NumDetectors == Len(pattern_detectors)

\* ---------------------------------------------------------- pure helpers
Min2(a, b) == IF a <= b THEN a ELSE b
Max2(a, b) == IF a >= b THEN a ELSE b
Abs(a) == IF a >= 0 THEN a ELSE -a

\* _get_pattern_category with the breakout detector filed under Continuation
get_pattern_category_flat(pattern_name) ==
    IF pattern_name \in {"Head and Shoulders", "Inverse Head and Shoulders",
                         "Double Top", "Double Bottom"}
    THEN "Reversal"
    ELSE IF pattern_name \in {"Triangle Patterns", "Flag Patterns",
                              "Pennant Patterns", "Breakout Patterns"}
    THEN "Continuation"
    ELSE "Other"

\* _get_pattern_category
get_pattern_category(pattern_name) ==
    IF pattern_name \in {"Head and Shoulders", "Inverse Head and Shoulders",
                         "Double Top", "Double Bottom"}
    THEN "Reversal"
    ELSE IF pattern_name \in {"Triangle Patterns", "Flag Patterns",
                              "Pennant Patterns"}
    THEN "Continuation"
    ELSE IF pattern_name \in {"Breakout Patterns"}
    THEN "Breakout"
    ELSE "Other"

\* the dict literal category_multiplier of _calculate_overall_signal with its
\* .get(category, 1.0) default, in tenths
category_multiplier(category) ==
    CASE category = "Reversal" -> 15
      [] category = "Breakout" -> 13
      [] category = "Continuation" -> 10
      [] category = "Candlestick" -> 8
      [] category = "Other" -> 5
      [] OTHER -> 10

\* pattern.get("category", "Other")
category_of(pattern) ==
    IF pattern.category = NoKey THEN "Other" ELSE pattern.category

\* the loop of _calculate_overall_signal: weighted_signals and total_weight
\* after all patterns were added, weights in tenths
RECURSIVE weighted_signals(_)
weighted_signals(patterns) ==
    IF patterns = <<>>
    THEN [BUY |-> 0, SELL |-> 0, HOLD |-> 0, total_weight |-> 0]
    ELSE LET rest == weighted_signals(SubSeq(patterns, 1, Len(patterns) - 1))
             pattern == patterns[Len(patterns)]
             weight == pattern.confidence
                         * category_multiplier(category_of(pattern))
         IN [rest EXCEPT ![pattern.signal] = @ + weight,
                         !.total_weight = @ + weight]

\* the vote thresholds with >= 30 in place of > 30
vote_prefers_loose(w, side, other) ==
    /\ w[side] * 100 > w[other] * 100 + 15 * w.total_weight
    /\ w[side] * 100 >= 30 * w.total_weight

\* buy_score > sell_score + 15 and buy_score > 30, on the percentages
\* w / total_weight * 100
vote_prefers(w, side, other) ==
    /\ w[side] * 100 > w[other] * 100 + 15 * w.total_weight
    /\ w[side] * 100 > 30 * w.total_weight

\* int(w / total_weight * 100)
percent_int(w, side) == (w[side] * 100) \div w.total_weight

\* _calculate_overall_signal
calculate_overall_signal(patterns) ==
    LET w == weighted_signals(patterns)
    IN IF patterns = <<>> THEN [signal |-> "HOLD", confidence |-> 0]
       ELSE IF w.total_weight = 0 THEN [signal |-> "HOLD", confidence |-> 0]
       ELSE IF vote_prefers(w, "BUY", "SELL")
       THEN [signal |-> "BUY", confidence |-> Min2(85, percent_int(w, "BUY"))]
       ELSE IF vote_prefers(w, "SELL", "BUY")
       THEN [signal |-> "SELL", confidence |-> Min2(85, percent_int(w, "SELL"))]
       ELSE [signal |-> "HOLD",
             confidence |->
                 Min2(70, Max2(percent_int(w, "BUY"),
                               Max2(percent_int(w, "SELL"),
                                    percent_int(w, "HOLD"))))]

\* the filter with >= 20 in place of > 20
RECURSIVE filter_valid_ge(_)
filter_valid_ge(patterns) ==
    IF patterns = <<>> THEN <<>>
    ELSE LET rest == filter_valid_ge(SubSeq(patterns, 1, Len(patterns) - 1))
             p == patterns[Len(patterns)]
         IN IF p.confidence >= 20 THEN Append(rest, p) ELSE rest

\* [p for p in all_patterns if p.get("confidence", 0) > 20]
RECURSIVE filter_valid(_)
filter_valid(patterns) ==
    IF patterns = <<>> THEN <<>>
    ELSE LET rest == filter_valid(SubSeq(patterns, 1, Len(patterns) - 1))
             p == patterns[Len(patterns)]
         IN IF p.confidence > 20 THEN Append(rest, p) ELSE rest

\* list.sort(key=confidence, reverse=True): stable, so equal confidences keep
\* their order
RECURSIVE sort_by_confidence(_)
sort_by_confidence(patterns) ==
    IF patterns = <<>> THEN <<>>
    ELSE LET rest == sort_by_confidence(SubSeq(patterns, 1, Len(patterns) - 1))
             p == patterns[Len(patterns)]
             k == Cardinality({i \in 1..Len(rest) :
                                  rest[i].confidence >= p.confidence})
         IN SubSeq(rest, 1, k) \o <<p>> \o SubSeq(rest, k + 1, Len(rest))

\* valid_patterns[:3]
top_3(valid_patterns) == SubSeq(valid_patterns, 1, Min2(3, Len(valid_patterns)))

\* _generate_pattern_summary, reduced to the text of its first part
generate_pattern_summary(top_patterns, overall_signal) ==
    IF top_patterns = <<>> THEN "No significant patterns detected"
    ELSE top_patterns[1].pattern

\* analyze_patterns, lines 109-132: the report built from all_patterns
build_report(patterns) ==
    LET valid_patterns == sort_by_confidence(filter_valid(patterns))
        top_3_patterns == top_3(valid_patterns)
        overall == calculate_overall_signal(valid_patterns)
    IN [keys |-> {"symbol", "patterns_detected", "top_3_patterns",
                  "overall_signal", "overall_confidence", "pattern_summary",
                  "all_patterns"},
        symbol |-> "UNKNOWN",
        patterns_detected |-> [type |-> "int", value |-> Len(valid_patterns)],
        top_3_patterns |-> top_3_patterns,
        overall_signal |-> overall.signal,
        overall_confidence |-> overall.confidence,
        pattern_summary |->
            generate_pattern_summary(top_3_patterns, overall.signal),
        all_patterns |-> valid_patterns]

\* analyze_patterns, lines 76-84: the report for df None or empty; its
\* patterns_detected is an empty list and it has no all_patterns key
empty_report ==
    [keys |-> {"symbol", "patterns_detected", "top_3_patterns",
               "overall_signal", "overall_confidence", "pattern_summary"},
     symbol |-> "UNKNOWN",
     patterns_detected |-> [type |-> "list", value |-> 0],
     top_3_patterns |-> <<>>,
     overall_signal |-> "HOLD",
     overall_confidence |-> 0,
     pattern_summary |-> "No data available for pattern analysis",
     all_patterns |-> <<>>]

\* the detector loop with one try around the whole loop: a raise loses what
\* was collected
run_detector_abort(patterns, pattern_name, outcome) ==
    IF outcome.raises THEN <<>>
    ELSE IF pattern_name = "Candlestick Patterns"
    THEN patterns \o
         [i \in 1..Len(outcome.results) |->
             [pattern |-> outcome.results[i].pattern,
              signal |-> outcome.results[i].signal,
              confidence |-> outcome.results[i].confidence,
              category |-> "Candlestick",
              detector |-> NoKey]]
    ELSE LET result == outcome.results[1]
         IN IF result.pattern # None
            THEN Append(patterns,
                        [pattern |-> result.pattern,
                         signal |-> result.signal,
                         confidence |-> result.confidence,
                         category |-> get_pattern_category(pattern_name),
                         detector |-> pattern_name])
            ELSE patterns

\* the body of the detector loop for one detector: outcome.raises says that
\* detector_func(df) raised, outcome.results is what it returned otherwise
\* (a one-element list for a single-pattern detector, the "patterns" list
\* for the candlestick detector)
run_detector(patterns, pattern_name, outcome) ==
    IF outcome.raises THEN patterns
    ELSE IF pattern_name = "Candlestick Patterns"
    THEN patterns \o
         [i \in 1..Len(outcome.results) |->
             [pattern |-> outcome.results[i].pattern,
              signal |-> outcome.results[i].signal,
              confidence |-> outcome.results[i].confidence,
              category |-> "Candlestick",
              detector |-> NoKey]]
    ELSE LET result == outcome.results[1]
         IN IF result.pattern # None
            THEN Append(patterns,
                        [pattern |-> result.pattern,
                         signal |-> result.signal,
                         confidence |-> result.confidence,
                         category |-> get_pattern_category(pattern_name),
                         detector |-> pattern_name])
            ELSE patterns

\* ------------------------------------------------------ detector results
\* signals each detector function can return (from its return statements)
DetectorSignals(pattern_name) ==
    CASE pattern_name \in {"Head and Shoulders", "Double Top"} -> {"SELL", "HOLD"}
      [] pattern_name \in {"Inverse Head and Shoulders", "Double Bottom"}
            -> {"BUY", "HOLD"}
      [] OTHER -> Signals

\* a pattern name the detector reports with that signal
DetectorPattern(pattern_name, signal) ==
    CASE pattern_name = "Triangle Patterns" ->
            (CASE signal = "BUY" -> "Ascending Triangle"
               [] signal = "SELL" -> "Descending Triangle"
               [] OTHER -> "Symmetrical Triangle")
      [] pattern_name = "Flag Patterns" ->
            (IF signal = "SELL" THEN "Bear Flag" ELSE "Bull Flag")
      [] pattern_name = "Pennant Patterns" ->
            (IF signal = "SELL" THEN "Bear Pennant" ELSE "Bull Pennant")
      [] pattern_name = "Breakout Patterns" ->
            (CASE signal = "BUY" -> "Resistance Breakout"
               [] signal = "SELL" -> "Support Breakdown"
               [] OTHER -> "Approaching Resistance")
      [] pattern_name = "Candlestick Patterns" ->
            (CASE signal = "BUY" -> "Hammer"
               [] signal = "SELL" -> "Hanging Man"
               [] OTHER -> "Doji")
      [] OTHER -> pattern_name

\* confidences enumerated for the result of a single-pattern detector and
\* for a candlestick pattern
DetectorConfidences == {60}

CandleConfidences == {30, 70}

NoPattern == [pattern |-> None, signal |-> "HOLD", confidence |-> 0]

Found(pattern_name, confidences) ==
    { [pattern |-> DetectorPattern(pattern_name, s), signal |-> s,
       confidence |-> c] :
        s \in DetectorSignals(pattern_name), c \in confidences }

\* candlestick "patterns" lists: the detector sorts them by confidence
CandleLists(confidences, longest) ==
    { l \in UNION { [1..n -> Found("Candlestick Patterns", confidences)] :
                       n \in 0..longest } :
        \A i \in 1..Len(l) - 1 : l[i].confidence >= l[i + 1].confidence }

Raises == [raises |-> TRUE, results |-> <<>>]

Silent == [raises |-> FALSE, results |-> <<NoPattern>>]

Returns(pattern_name, confidences, longest) ==
    IF pattern_name = "Candlestick Patterns"
    THEN { [raises |-> FALSE, results |-> l] :
              l \in CandleLists(confidences, longest) }
    ELSE { [raises |-> FALSE, results |-> <<r>>] :
              r \in {NoPattern} \cup Found(pattern_name, confidences) }

Outcomes(pattern_name) ==
    {Raises} \cup
    Returns(pattern_name,
            IF pattern_name = "Candlestick Patterns"
            THEN CandleConfidences ELSE DetectorConfidences,
            MaxCandles)

\* the whole of analyze_patterns on a non-empty frame: df[n] is the outcome
\* of the call of the n-th detector on that frame
RECURSIVE collect_patterns(_, _)
collect_patterns(df, n) ==
    IF n = 0 THEN <<>>
    ELSE run_detector(collect_patterns(df, n - 1), pattern_detectors[n],
                      df[n])

analyze_patterns(df) == build_report(collect_patterns(df, NumDetectors))

\* ---------------------------------------------- analyze_patterns, stepwise
NoVote == [BUY |-> 0, SELL |-> 0, HOLD |-> 0, total_weight |-> 0]

\* the scorer is not running
\* no portfolio run is under way
NoRun ==
    [phase |-> "idle", holdings |-> 0, writes |-> 0, regimes |-> {},
     returned |-> None, scored |-> <<>>]

\* ========================================================== the detectors
\* A bar series is given by what the detectors read of it: its length, the
\* final close, and the extrema scipy.signal.find_peaks returns (oldest
\* first) with the extreme low or high of the bars between two neighbours.
\* Prices are positive integers; a confidence is the exact fraction num / den.
Frac(n, d) == [num |-> n, den |-> d]

\* min(cap, f) for a fraction f
FracMin(cap, f) == IF f.num > cap * f.den THEN Frac(cap, 1) ELSE f

RECURSIVE SeqMin(_)
SeqMin(q) == IF Len(q) = 1 THEN q[1] ELSE Min2(q[1], SeqMin(Tail(q)))

RECURSIVE SeqMax(_)
SeqMax(q) == IF Len(q) = 1 THEN q[1] ELSE Max2(q[1], SeqMax(Tail(q)))

\* q[-k:]
LastOf(q, k) == IF Len(q) <= k THEN q ELSE SubSeq(q, Len(q) - k + 1, Len(q))

\* the result of a detector that found nothing
no_pattern(description) ==
    [pattern |-> None, signal |-> "HOLD", confidence |-> Frac(0, 1),
     description |-> description, key_levels |-> <<>>]

\* the result of a detector that found pattern
found_pattern(pattern, signal, confidence, key_levels) ==
    [pattern |-> pattern, signal |-> signal, confidence |-> confidence,
     description |-> pattern, key_levels |-> key_levels]

\* head_and_shoulders.py line 65 with >= in place of >
hs_head_highest_loose(left_peak, head_peak, right_peak) ==
    head_peak >= left_peak /\ head_peak >= right_peak

\* head_and_shoulders.py line 65: the head is higher than both shoulders
hs_head_highest(left_peak, head_peak, right_peak) ==
    head_peak > left_peak /\ head_peak > right_peak

\* lines 67-69: abs(left - right) / max(left, right) <= tolerance, the
\* tolerance being the default 0.02
hs_shoulders_level(left, right) == 50 * Abs(left - right) <= Max2(left, right)

\* lines 70-97: the match on peaks i, i+1, i+2 of recent_peaks; lows[k] is
\* min(lows[peak k : peak k+1 + 1])
hs_match(peaks, lows, close, i) ==
    LET left_peak == peaks[i]
        head_peak == peaks[i + 1]
        right_peak == peaks[i + 2]
        neckline_level == Min2(lows[i], lows[i + 1])
        shoulder == Max2(left_peak, right_peak)
        confidence == FracMin(85, Frac(50 * head_peak
                                       + 100 * (head_peak - shoulder),
                                       head_peak))
        signal == IF 100 * close < 101 * neckline_level
                  THEN "SELL" ELSE "HOLD"
    IN found_pattern("Head and Shoulders", signal, confidence,
                     <<head_peak, left_peak, right_peak, neckline_level>>)

\* the scan of lines 55-97 from the newest triple to the oldest
RECURSIVE hs_scan_newest(_, _, _, _)
hs_scan_newest(peaks, lows, close, i) ==
    LET k == Len(peaks) - 1 - i
    IN IF i > Len(peaks) - 2
       THEN no_pattern("No Head and Shoulders pattern detected")
       ELSE IF /\ hs_head_highest(peaks[k], peaks[k + 1], peaks[k + 2])
               /\ hs_shoulders_level(peaks[k], peaks[k + 2])
       THEN hs_match(peaks, lows, close, k)
       ELSE hs_scan_newest(peaks, lows, close, i + 1)

\* lines 55-97: for i in range(len(recent_peaks) - 2), first match returns
RECURSIVE hs_scan(_, _, _, _)
hs_scan(peaks, lows, close, i) ==
    IF i > Len(peaks) - 2
    THEN no_pattern("No Head and Shoulders pattern detected")
    ELSE IF /\ hs_head_highest(peaks[i], peaks[i + 1], peaks[i + 2])
            /\ hs_shoulders_level(peaks[i], peaks[i + 2])
    THEN hs_match(peaks, lows, close, i)
    ELSE hs_scan(peaks, lows, close, i + 1)

\* detect_head_and_shoulders with the length test of line 25 against
\* lookback in place of lookback * 2
detect_head_and_shoulders_short(df) ==
    IF df.len < 20 THEN no_pattern("Insufficient data")
    ELSE IF Len(df.peaks5) < 3 THEN no_pattern("Not enough peaks found")
    ELSE hs_scan(LastOf(df.peaks5, 5), LastOf(df.lows5, 4), df.close, 1)

\* detect_head_and_shoulders, lines 13-104 (lookback = 20)
detect_head_and_shoulders(df) ==
    IF df.len < 20 * 2 THEN no_pattern("Insufficient data")
    ELSE IF Len(df.peaks5) < 3 THEN no_pattern("Not enough peaks found")
    ELSE hs_scan(LastOf(df.peaks5, 5), LastOf(df.lows5, 4), df.close, 1)

\* head_and_shoulders.py lines 155-184: the match on valleys i, i+1, i+2;
\* highs[k] is max(highs[valley k : valley k+1 + 1])
ihs_match(valleys, highs, close, i) ==
    LET left_valley == valleys[i]
        head_valley == valleys[i + 1]
        right_valley == valleys[i + 2]
        neckline_level == Max2(highs[i], highs[i + 1])
        shoulder == Min2(left_valley, right_valley)
        confidence == FracMin(85, Frac(50 * head_valley
                                       + 100 * (shoulder - head_valley),
                                       head_valley))
        signal == IF 100 * close > 99 * neckline_level
                  THEN "BUY" ELSE "HOLD"
    IN found_pattern("Inverse Head and Shoulders", signal, confidence,
                     <<head_valley, left_valley, right_valley,
                       neckline_level>>)

\* lines 138-184: first match returns
RECURSIVE ihs_scan(_, _, _, _)
ihs_scan(valleys, highs, close, i) ==
    IF i > Len(valleys) - 2
    THEN no_pattern("No Inverse Head and Shoulders pattern detected")
    ELSE IF /\ valleys[i + 1] < valleys[i]
            /\ valleys[i + 1] < valleys[i + 2]
            /\ hs_shoulders_level(valleys[i], valleys[i + 2])
    THEN ihs_match(valleys, highs, close, i)
    ELSE ihs_scan(valleys, highs, close, i + 1)

\* detect_inverse_head_and_shoulders, lines 107-191 (lookback = 20)
detect_inverse_head_and_shoulders(df) ==
    IF df.len < 20 * 2 THEN no_pattern("Insufficient data")
    ELSE IF Len(df.valleys5) < 3 THEN no_pattern("Not enough valleys found")
    ELSE ihs_scan(LastOf(df.valleys5, 5), LastOf(df.highs5, 4), df.close, 1)

\* double_patterns.py lines 60-72: the peaks i and j are within the
\* tolerance 0.03 of each other and the valley between them retraces more
\* than 5% of their average; lows[k] is min(lows[peak k : peak k+1 + 1])
dt_valid(peaks, lows, i, j) ==
    LET first_peak == peaks[i]
        second_peak == peaks[j]
        valley_low == SeqMin(SubSeq(lows, i, j - 1))
    IN /\ 100 * Abs(first_peak - second_peak)
             <= 3 * Max2(first_peak, second_peak)
       /\ 20 * (first_peak + second_peak - 2 * valley_low)
             > first_peak + second_peak

\* lines 73-106: min(85, 40 + valley_depth * 300 + (1 - height_diff) * 30)
dt_match(peaks, lows, close, i, j) ==
    LET first_peak == peaks[i]
        second_peak == peaks[j]
        support_level == SeqMin(SubSeq(lows, i, j - 1))
        sum == first_peak + second_peak
        top == Max2(first_peak, second_peak)
        confidence ==
            FracMin(85, Frac(70 * sum * top
                             + 300 * (sum - 2 * support_level) * top
                             - 30 * Abs(first_peak - second_peak) * sum,
                             sum * top))
        signal == IF 100 * close < 102 * support_level
                  THEN "SELL" ELSE "HOLD"
    IN [found_pattern("Double Top", signal, confidence,
                      <<first_peak, second_peak, support_level>>)
        EXCEPT !.description =
            IF signal = "SELL" THEN "Double Top"
            ELSE IF 200 * close < 95 * sum THEN "Double Top forming"
            ELSE "Double Top pattern detected but price still elevated"]

\* lines 51-106: for i, for j in range(i + 1, ...), first valid pair returns
RECURSIVE dt_scan(_, _, _, _, _)
dt_scan(peaks, lows, close, i, j) ==
    IF i > Len(peaks) - 1
    THEN no_pattern("No Double Top pattern detected")
    ELSE IF j > Len(peaks)
    THEN dt_scan(peaks, lows, close, i + 1, i + 2)
    ELSE IF dt_valid(peaks, lows, i, j)
    THEN dt_match(peaks, lows, close, i, j)
    ELSE dt_scan(peaks, lows, close, i, j + 1)

\* detect_double_top, lines 13-113 (lookback = 30)
detect_double_top(df) ==
    IF df.len < 30 THEN no_pattern("Insufficient data")
    ELSE IF Len(df.peaks10) < 2 THEN no_pattern("Not enough peaks found")
    ELSE dt_scan(LastOf(df.peaks10, 10), LastOf(df.lows10, 9), df.close,
                 1, 2)

\* double_patterns.py lines 155-169; highs[k] is
\* max(highs[valley k : valley k+1 + 1])
db_valid(valleys, highs, i, j) ==
    LET first_valley == valleys[i]
        second_valley == valleys[j]
        peak_high == SeqMax(SubSeq(highs, i, j - 1))
    IN /\ 100 * Abs(first_valley - second_valley)
             <= 3 * Max2(first_valley, second_valley)
       /\ 20 * (2 * peak_high - first_valley - second_valley)
             > first_valley + second_valley

\* lines 170-201: min(85, 40 + peak_height * 300 + (1 - depth_diff) * 30)
db_match(valleys, highs, close, i, j) ==
    LET first_valley == valleys[i]
        second_valley == valleys[j]
        resistance_level == SeqMax(SubSeq(highs, i, j - 1))
        sum == first_valley + second_valley
        top == Max2(first_valley, second_valley)
        confidence ==
            FracMin(85, Frac(70 * sum * top
                             + 300 * (2 * resistance_level - sum) * top
                             - 30 * Abs(first_valley - second_valley) * sum,
                             sum * top))
        signal == IF 100 * close > 98 * resistance_level
                  THEN "BUY" ELSE "HOLD"
    IN [found_pattern("Double Bottom", signal, confidence,
                      <<first_valley, second_valley, resistance_level>>)
        EXCEPT !.description =
            IF signal = "BUY" THEN "Double Bottom"
            ELSE IF 200 * close > 103 * sum THEN "Double Bottom forming"
            ELSE "Double Bottom pattern detected but price still weak"]

\* lines 146-201: first valid pair returns
RECURSIVE db_scan(_, _, _, _, _)
db_scan(valleys, highs, close, i, j) ==
    IF i > Len(valleys) - 1
    THEN no_pattern("No Double Bottom pattern detected")
    ELSE IF j > Len(valleys)
    THEN db_scan(valleys, highs, close, i + 1, i + 2)
    ELSE IF db_valid(valleys, highs, i, j)
    THEN db_match(valleys, highs, close, i, j)
    ELSE db_scan(valleys, highs, close, i, j + 1)

\* detect_double_bottom, lines 116-208 (lookback = 30)
detect_double_bottom(df) ==
    IF df.len < 30 THEN no_pattern("Insufficient data")
    ELSE IF Len(df.valleys10) < 2 THEN no_pattern("Not enough valleys found")
    ELSE db_scan(LastOf(df.valleys10, 10), LastOf(df.highs10, 9), df.close,
                 1, 2)

\* --------------------------------------------------- support_resistance.py
\* abs(price - other_price) / price <= tolerance, the tolerance being 0.02
sr_similar(price, other_price) == 50 * Abs(price - other_price) <= price

\* lines 75-82 (and 124-131): the extrema other than i that are similar to
\* extremum i, in order
RECURSIVE sr_similar_prices(_, _, _)
sr_similar_prices(prices, i, j) ==
    IF j > Len(prices) THEN <<>>
    ELSE IF i # j /\ sr_similar(prices[i], prices[j])
    THEN <<prices[j]>> \o sr_similar_prices(prices, i, j + 1)
    ELSE sr_similar_prices(prices, i, j + 1)

RECURSIVE SeqSum(_)
SeqSum(q) == IF q = <<>> THEN 0 ELSE q[1] + SeqSum(Tail(q))

\* lines 84-92 with the candidate itself left out of the count
RECURSIVE sr_candidates_others(_, _, _)
sr_candidates_others(prices, min_touches, i) ==
    IF i > Len(prices) THEN <<>>
    ELSE LET others == sr_similar_prices(prices, i, 1)
             touches == Len(others)
         IN (IF touches >= min_touches
             THEN <<[level |-> Frac(prices[i] + SeqSum(others), touches + 1),
                     touches |-> touches]>>
             ELSE <<>>)
            \o sr_candidates_others(prices, min_touches, i + 1)

\* lines 75-92 (and 124-141): one candidate level for every extremum with
\* at least min_touches touches; level is np.mean(similar_prices) and
\* strength is touches * (1 - tolerance)
RECURSIVE sr_candidates(_, _, _)
sr_candidates(prices, min_touches, i) ==
    IF i > Len(prices) THEN <<>>
    ELSE LET others == sr_similar_prices(prices, i, 1)
             touches == 1 + Len(others)
         IN (IF touches >= min_touches
             THEN <<[level |-> Frac(prices[i] + SeqSum(others), touches),
                     touches |-> touches]>>
             ELSE <<>>)
            \o sr_candidates(prices, min_touches, i + 1)

\* abs(level - existing) / level <= 0.02 for two mean levels
sr_duplicate(level, existing) ==
    50 * Abs(level.num * existing.den - existing.num * level.den)
        <= level.num * existing.den

\* the position of the first entry of unique_levels that level duplicates,
\* 0 if there is none
RECURSIVE sr_first_duplicate(_, _, _)
sr_first_duplicate(unique_levels, level, k) ==
    IF k > Len(unique_levels) THEN 0
    ELSE IF sr_duplicate(level.level, unique_levels[k].level) THEN k
    ELSE sr_first_duplicate(unique_levels, level, k + 1)

RemoveAt(q, k) == SubSeq(q, 1, k - 1) \o SubSeq(q, k + 1, Len(q))

\* lines 95-106 (and 144-155): remove duplicates
RECURSIVE sr_unique(_, _, _)
sr_unique(levels, unique_levels, i) ==
    IF i > Len(levels) THEN unique_levels
    ELSE LET level == levels[i]
             k == sr_first_duplicate(unique_levels, level, 1)
         IN sr_unique(levels,
                      IF k = 0 THEN Append(unique_levels, level)
                      ELSE IF level.touches > unique_levels[k].touches
                      THEN Append(RemoveAt(unique_levels, k), level)
                      ELSE unique_levels,
                      i + 1)

\* sorted(unique_levels, key=strength, reverse=True): stable, descending
RECURSIVE sr_sorted(_)
sr_sorted(levels) ==
    IF levels = <<>> THEN <<>>
    ELSE LET rest == sr_sorted(Tail(levels))
             ahead == { k \in 1..Len(rest) :
                          rest[k].touches > levels[1].touches }
             n == Cardinality(ahead)
         IN SubSeq(rest, 1, n) \o <<levels[1]>> \o SubSeq(rest, n + 1, Len(rest))

\* find_support_levels / find_resistance_levels, lines 62-157, on the prices
\* of the extrema of the window
find_levels(prices, min_touches) ==
    IF Len(prices) < min_touches THEN <<>>
    ELSE sr_sorted(sr_unique(sr_candidates(prices, min_touches, 1), <<>>, 1))

\* a check_* function returning None
ReturnsNone == no_pattern(None)

\* lines 303-312: check_breakout_volume on the window of 50 bars
check_breakout_volume(df) ==
    IF ~df.has_volume THEN FALSE
    ELSE 2 * df.recent_volume > 3 * df.avg_volume

\* lines 174-176 without the two caps
breakout_confidence_uncapped(strongest, volume_confirmed) ==
    IF volume_confirmed
    THEN Frac(500 + 98 * strongest.touches + 150, 10)
    ELSE Frac(500 + 98 * strongest.touches, 10)

\* lines 174-176 (and 220-222): min(85, 50 + strength * 10), with volume
\* confirmation min(90, confidence + 15)
breakout_confidence(strongest, volume_confirmed) ==
    LET confidence == FracMin(85, Frac(500 + 98 * strongest.touches, 10))
    IN IF volume_confirmed
       THEN FracMin(90, Frac(confidence.num + 15 * confidence.den,
                             confidence.den))
       ELSE confidence

level_keys(strongest) ==
    <<strongest.level.num, strongest.level.den, strongest.touches>>

\* check_resistance_breakout, lines 160-203
check_resistance_breakout(current_price, resistance_levels, df) ==
    IF resistance_levels = <<>> THEN ReturnsNone
    ELSE LET strongest == resistance_levels[1]
             level == strongest.level
         IN IF 1000 * current_price * level.den > 1005 * level.num
            THEN found_pattern("Resistance Breakout", "BUY",
                               breakout_confidence(strongest,
                                                   check_breakout_volume(df)),
                               level_keys(strongest))
            ELSE IF 100 * current_price * level.den > 98 * level.num
            THEN found_pattern("Approaching Resistance", "HOLD", Frac(60, 1),
                               level_keys(strongest))
            ELSE ReturnsNone

\* check_support_breakdown, lines 206-249
check_support_breakdown(current_price, support_levels, df) ==
    IF support_levels = <<>> THEN ReturnsNone
    ELSE LET strongest == support_levels[1]
             level == strongest.level
         IN IF 1000 * current_price * level.den < 995 * level.num
            THEN found_pattern("Support Breakdown", "SELL",
                               breakout_confidence(strongest,
                                                   check_breakout_volume(df)),
                               level_keys(strongest))
            ELSE IF 100 * current_price * level.den < 102 * level.num
            THEN found_pattern("Approaching Support", "HOLD", Frac(60, 1),
                               level_keys(strongest))
            ELSE ReturnsNone

\* lines 259-270: the first level of the ranked list on the given side of
\* the price, <<>> if there is none
RECURSIVE first_level_below(_, _, _)
first_level_below(levels, current_price, k) ==
    IF k > Len(levels) THEN <<>>
    ELSE IF levels[k].level.num < current_price * levels[k].level.den
    THEN <<levels[k]>>
    ELSE first_level_below(levels, current_price, k + 1)

RECURSIVE first_level_above(_, _, _)
first_level_above(levels, current_price, k) ==
    IF k > Len(levels) THEN <<>>
    ELSE IF levels[k].level.num > current_price * levels[k].level.den
    THEN <<levels[k]>>
    ELSE first_level_above(levels, current_price, k + 1)

\* check_approaching_levels, lines 252-300
check_approaching_levels(current_price, support_levels, resistance_levels) ==
    LET closest_support == first_level_below(support_levels, current_price, 1)
        closest_resistance ==
            first_level_above(resistance_levels, current_price, 1)
    IN IF closest_support # <<>> /\ closest_resistance # <<>>
       THEN LET s == closest_support[1].level
                r == closest_resistance[1].level
                support_gap == current_price * s.den - s.num
                resistance_gap == r.num - current_price * r.den
            IN IF /\ support_gap * r.den < resistance_gap * s.den
                  /\ 100 * support_gap < 3 * current_price * s.den
               THEN found_pattern("Near Support", "HOLD", Frac(50, 1),
                                  level_keys(closest_support[1]))
               ELSE IF 100 * resistance_gap < 3 * current_price * r.den
               THEN found_pattern("Near Resistance", "HOLD", Frac(50, 1),
                                  level_keys(closest_resistance[1]))
               ELSE no_pattern("No significant S/R levels nearby")
       ELSE no_pattern("No significant S/R levels nearby")

\* lines 52-59 with only the breakouts of the two checks returned
breakout_choice_events(resistance_breakout, support_breakdown, approaching) ==
    IF resistance_breakout.signal = "BUY" THEN resistance_breakout
    ELSE IF support_breakdown.signal = "SELL" THEN support_breakdown
    ELSE approaching

\* lines 52-59: the resistance check's report, whatever it is, comes first
breakout_choice(resistance_breakout, support_breakdown, approaching) ==
    IF resistance_breakout # ReturnsNone THEN resistance_breakout
    ELSE IF support_breakdown # ReturnsNone THEN support_breakdown
    ELSE approaching

\* detect_breakout_patterns with another number of required touches
detect_breakout_touches(df, min_touches) ==
    IF df.len < 50 THEN no_pattern("Insufficient data")
    ELSE LET support_levels == find_levels(df.valleys50, min_touches)
             resistance_levels == find_levels(df.peaks50, min_touches)
         IN IF support_levels = <<>> /\ resistance_levels = <<>>
            THEN no_pattern("No clear S/R levels found")
            ELSE breakout_choice(
                     check_resistance_breakout(df.close, resistance_levels, df),
                     check_support_breakdown(df.close, support_levels, df),
                     check_approaching_levels(df.close, support_levels,
                                              resistance_levels))

\* detect_breakout_patterns(df, lookback=50, min_touches=3), lines 13-59
detect_breakout_patterns(df) == detect_breakout_touches(df, 3)

\* ------------------------------------------------------------- triangles.py
\* Slopes and r-squared values are in hundredths: the trendlines are the
\* outcome of scipy's linregress on the extrema of the 40-bar window.

FracAdd(f, n) == Frac(f.num + n * f.den, f.den)

\* check_volume_confirmation, lines 151-166
check_volume_confirmation(df) ==
    IF ~df.has_volume THEN FALSE
    ELSE 10 * df.recent10_volume < 9 * df.earlier_volume

\* lines 122-137: the volume bonus and the report
triangle_report(df, pattern_type, signal, confidence) ==
    found_pattern(pattern_type, signal,
                  IF check_volume_confirmation(df)
                  THEN FracMin(85, FracAdd(confidence, 10))
                  ELSE confidence,
                  <<df.peak_slope, df.valley_slope,
                    df.peak_r_squared, df.valley_r_squared>>)

\* detect_triangle_patterns with another lookback
detect_triangle_lookback(df, lookback) ==
    IF df.len < lookback THEN no_pattern("Insufficient data")
    ELSE IF df.tri_peaks < 3 \/ df.tri_valleys < 3
    THEN no_pattern("Not enough peaks/valleys for triangle")
    ELSE IF df.peak_r_squared < 60 \/ df.valley_r_squared < 60
    THEN no_pattern("Trendlines not well-defined")
    ELSE IF Abs(df.peak_slope) < 10 /\ df.valley_slope > 10
    THEN triangle_report(df, "Ascending Triangle",
             IF 100 * df.close > 98 * df.resistance_level
             THEN "BUY" ELSE "HOLD",
             FracMin(80, Frac(5000 + 30 * df.valley_r_squared, 100)))
    ELSE IF df.peak_slope < -10 /\ Abs(df.valley_slope) < 10
    THEN triangle_report(df, "Descending Triangle",
             IF 100 * df.close < 102 * df.support_level
             THEN "SELL" ELSE "HOLD",
             FracMin(80, Frac(5000 + 30 * df.peak_r_squared, 100)))
    ELSE IF df.peak_slope < -5 /\ df.valley_slope > 5
    THEN triangle_report(df, "Symmetrical Triangle",
             IF 100 * df.close > 98 * df.upper_line THEN "BUY"
             ELSE IF 100 * df.close < 102 * df.lower_line THEN "SELL"
             ELSE "HOLD",
             FracMin(75, Frac(4000 + 25 * (df.peak_r_squared
                                           + df.valley_r_squared), 100)))
    ELSE no_pattern("No clear triangle pattern")

\* detect_triangle_patterns(df, lookback=40, min_touches=3), lines 14-137
detect_triangle_patterns(df) == detect_triangle_lookback(df, 40)

\* --------------------------------------------------------- flags_pennants.py
\* abs(price_change) * 100 for price_change = (last - first) / first, as a
\* fraction
pole_move(first_close, close) == Frac(100 * Abs(close - first_close), first_close)

\* lines 60-103 and 167-210: direction, breakout test and confidence of a
\* flag (base 50 / 40, caps 75 / 60) or pennant (base 55 / 45, caps 80 / 65)
continuation_report(df, first_close, high, low, bull, bear, base, cap) ==
    LET move == pole_move(first_close, df.close)
        breaking == FracMin(cap, FracAdd(move, base))
        forming == FracMin(cap - 15,
                           Frac(2 * (base - 10) * move.den + move.num,
                                2 * move.den))
    IN IF df.close > first_close
       THEN IF 100 * df.close > 99 * high
            THEN found_pattern(bull, "BUY", breaking, <<high>>)
            ELSE found_pattern(bull, "HOLD", forming, <<high>>)
       ELSE IF 100 * df.close < 101 * low
            THEN found_pattern(bear, "SELL", breaking, <<low>>)
            ELSE found_pattern(bear, "HOLD", forming, <<low>>)

\* detect_flag_patterns with another lookback
detect_flag_lookback(df, lookback) ==
    IF df.len < lookback THEN no_pattern("Insufficient data")
    ELSE IF 10 * Abs(df.close - df.first_close30) < df.first_close30
    THEN no_pattern("No significant prior move for flag")
    ELSE IF 100 * (df.consolidation_high - df.consolidation_low)
                > 8 * df.consolidation_low
    THEN no_pattern("Consolidation range too wide for flag")
    ELSE continuation_report(df, df.first_close30, df.consolidation_high,
                             df.consolidation_low, "Bull Flag", "Bear Flag",
                             50, 75)

\* detect_flag_patterns(df, lookback=30), lines 13-103
detect_flag_patterns(df) == detect_flag_lookback(df, 30)

\* detect_pennant_patterns with another lookback
detect_pennant_lookback(df, lookback) ==
    IF df.len < lookback THEN no_pattern("Insufficient data")
    ELSE IF 100 * Abs(df.close - df.first_close25) < 8 * df.first_close25
    THEN no_pattern("No significant prior move for pennant")
    ELSE IF Min2(12, lookback \div 2) < 5
    THEN no_pattern("Insufficient consolidation data")
    \* lines 150-151 unpack linregress's second value, the intercept, under
    \* the name r2 and drop its third, the r value; the intercept is a price
    \* in tenths, so > 0.5 is > 5
    ELSE IF ~(/\ df.high_slope < -10 /\ df.low_slope > 10
              /\ df.high_intercept > 5 /\ df.low_intercept > 5)
    THEN no_pattern("No converging trendlines for pennant")
    ELSE continuation_report(df, df.first_close25, df.recent_high,
                             df.recent_low, "Bull Pennant", "Bear Pennant",
                             55, 80)

\* detect_pennant_patterns(df, lookback=25), lines 106-210
detect_pennant_patterns(df) == detect_pennant_lookback(df, 25)

\* --------------------------------------------------- candlestick_patterns.py
FracPlus(f, g) == Frac(f.num * g.den + g.num * f.den, f.den * g.den)
FracLess(f, g) == f.num * g.den < g.num * f.den

candle_pattern(pattern, signal, confidence, position) ==
    [pattern |-> pattern, signal |-> signal, confidence |-> confidence,
     position |-> position]

candle_body(c) == Abs(c.close - c.open)

\* lines 65-113, one bar of detect_hammer_patterns; positions count from 0
hammer_at(candles, i) ==
    LET current == candles[i]
        prev == candles[i - 1]
        body == candle_body(current)
        upper_shadow == current.high - Max2(current.open, current.close)
        lower_shadow == Min2(current.open, current.close) - current.low
        total_range == current.high - current.low
    IN IF total_range = 0 THEN <<>>
       ELSE IF /\ 10 * body < 3 * total_range
               /\ 10 * lower_shadow > 6 * total_range
               /\ 10 * upper_shadow < total_range
       THEN IF current.close < prev.close
            THEN <<candle_pattern("Hammer", "BUY",
                      FracMin(70, Frac(40 * total_range + 50 * lower_shadow,
                                       total_range)), i - 1)>>
            ELSE <<candle_pattern("Hanging Man", "SELL",
                      FracMin(65, Frac(35 * total_range + 40 * lower_shadow,
                                       total_range)), i - 1)>>
       ELSE <<>>

\* lines 122-147, one bar of detect_doji_patterns
doji_at(candles, i) ==
    LET current == candles[i]
        total_range == current.high - current.low
        body == candle_body(current)
    IN IF total_range = 0 THEN <<>>
       ELSE IF 10 * body < total_range
       THEN <<candle_pattern("Doji", "HOLD",
                 FracMin(60, Frac(60 * total_range - 30 * body, total_range)),
                 i - 1)>>
       ELSE <<>>

\* lines 156-201, one bar of detect_engulfing_patterns
engulfing_at(candles, i) ==
    LET current == candles[i]
        prev == candles[i - 1]
        curr_body == candle_body(current)
        prev_body == candle_body(prev)
        confidence == FracMin(75, Frac(25 * prev_body + 25 * curr_body,
                                       prev_body))
    IN IF 10 * curr_body > 12 * prev_body
       THEN IF /\ current.open < prev.close /\ prev.close < prev.open
               /\ prev.open < current.close /\ current.close > current.open
            THEN <<candle_pattern("Bullish Engulfing", "BUY", confidence,
                                  i - 1)>>
            ELSE IF /\ current.open > prev.close /\ prev.close > prev.open
                    /\ prev.open > current.close
                    /\ current.close < current.open
            THEN <<candle_pattern("Bearish Engulfing", "SELL", confidence,
                                  i - 1)>>
            ELSE <<>>
       ELSE <<>>

\* lines 210-251, one bar of detect_star_patterns
star_at(candles, i) ==
    LET first == candles[i - 2]
        middle == candles[i - 1]
        last == candles[i]
        small_middle == 10 * candle_body(middle) < 3 * candle_body(first)
    IN IF /\ first.close < first.open /\ small_middle
          /\ last.close > last.open
          /\ 2 * last.close > first.open + first.close
       THEN <<candle_pattern("Morning Star", "BUY", Frac(70, 1), i - 1)>>
       ELSE IF /\ first.close > first.open /\ small_middle
               /\ last.close < last.open
               /\ 2 * last.close < first.open + first.close
       THEN <<candle_pattern("Evening Star", "SELL", Frac(70, 1), i - 1)>>
       ELSE <<>>

\* lines 260-308, one bar of detect_piercing_patterns
piercing_at(candles, i) ==
    LET current == candles[i]
        prev == candles[i - 1]
        prev_body == candle_body(prev)
        twice_midpoint == prev.open + prev.close
    IN IF /\ prev.open > prev.close /\ prev.close > current.open
          /\ current.close > current.open
          /\ 2 * current.close > twice_midpoint
       THEN <<candle_pattern("Piercing Line", "BUY",
                 FracMin(70, Frac(40 * prev_body
                                  + 20 * (2 * current.close - twice_midpoint),
                                  prev_body)), i - 1)>>
       ELSE IF /\ prev.open < prev.close /\ prev.close < current.open
               /\ current.close < current.open
               /\ 2 * current.close < twice_midpoint
       THEN <<candle_pattern("Dark Cloud Cover", "SELL",
                 FracMin(70, Frac(40 * prev_body
                                  + 20 * (twice_midpoint - 2 * current.close),
                                  prev_body)), i - 1)>>
       ELSE <<>>

\* the loop of one of the five pattern functions, from bar i on
RECURSIVE candle_loop(_, _, _)
candle_loop(candles, kind, i) ==
    IF i > Len(candles) THEN <<>>
    ELSE (CASE kind = "hammer" -> hammer_at(candles, i)
            [] kind = "doji" -> doji_at(candles, i)
            [] kind = "engulfing" -> engulfing_at(candles, i)
            [] kind = "star" -> star_at(candles, i)
            [] kind = "piercing" -> piercing_at(candles, i))
         \o candle_loop(candles, kind, i + 1)

\* lines 22-26: the five lists, pooled in this order
patterns_found(candles) ==
    candle_loop(candles, "hammer", 2) \o candle_loop(candles, "doji", 1)
    \o candle_loop(candles, "engulfing", 2) \o candle_loop(candles, "star", 3)
    \o candle_loop(candles, "piercing", 2)

\* line 29: patterns_found.sort(key=confidence, reverse=True), stable
RECURSIVE candle_sort(_)
candle_sort(found) ==
    IF found = <<>> THEN <<>>
    ELSE LET rest == candle_sort(Tail(found))
             ahead == { k \in 1..Len(rest) :
                          FracLess(found[1].confidence, rest[k].confidence) }
             n == Cardinality(ahead)
         IN SubSeq(rest, 1, n) \o <<found[1]>> \o SubSeq(rest, n + 1, Len(rest))

\* lines 38-39: the summed confidence of the top patterns with one signal
RECURSIVE signal_weight(_, _)
signal_weight(top_patterns, signal) ==
    IF top_patterns = <<>> THEN Frac(0, 1)
    ELSE IF top_patterns[1].signal = signal
    THEN FracPlus(top_patterns[1].confidence,
                  signal_weight(Tail(top_patterns), signal))
    ELSE signal_weight(Tail(top_patterns), signal)

candle_result(patterns, top_signal, confidence) ==
    [patterns |-> patterns, top_signal |-> top_signal,
     confidence |-> confidence]

\* detect_candlestick_patterns(df, lookback=10), lines 9-58
detect_candlestick_patterns(df) ==
    IF df.len < 5 THEN candle_result(<<>>, "HOLD", Frac(0, 1))
    ELSE LET sorted == candle_sort(patterns_found(df.candles))
             top_patterns == SubSeq(sorted, 1, Min2(3, Len(sorted)))
             buy_weight == signal_weight(top_patterns, "BUY")
             sell_weight == signal_weight(top_patterns, "SELL")
         IN IF top_patterns = <<>> THEN candle_result(<<>>, "HOLD", Frac(0, 1))
            ELSE IF FracLess(FracAdd(sell_weight, 20), buy_weight)
            THEN candle_result(top_patterns, "BUY", FracMin(80, buy_weight))
            ELSE IF FracLess(FracAdd(buy_weight, 20), sell_weight)
            THEN candle_result(top_patterns, "SELL", FracMin(80, sell_weight))
            ELSE candle_result(top_patterns, "HOLD",
                               top_patterns[1].confidence)

\* ------------------------------------------------------- the bar series
\* A bar series is held as what the detectors read from it: its length, its
\* final close, and per detector the extrema that scipy's find_peaks yields
\* on its window (peaks5: the highs of the peaks at distance 5, lows5[k]: the
\* lowest low between peak k and peak k + 1, and so on), the window's first
\* close and consolidation range, the fitted trendlines, the mean volumes and
\* the last candles.  Prices are in tenths of a rupee.
EmptySeries ==
    [len |-> 0, close |-> 0,
     peaks5 |-> <<>>, lows5 |-> <<>>, valleys5 |-> <<>>, highs5 |-> <<>>,
     peaks10 |-> <<>>, lows10 |-> <<>>, valleys10 |-> <<>>, highs10 |-> <<>>,
     peaks50 |-> <<>>, valleys50 |-> <<>>,
     has_volume |-> FALSE, recent_volume |-> 0, avg_volume |-> 0,
     recent10_volume |-> 0, earlier_volume |-> 0,
     tri_peaks |-> 0, tri_valleys |-> 0, peak_slope |-> 0, valley_slope |-> 0,
     peak_r_squared |-> 0, valley_r_squared |-> 0,
     resistance_level |-> 0, support_level |-> 0,
     upper_line |-> 0, lower_line |-> 0,
     first_close30 |-> 0, consolidation_high |-> 0, consolidation_low |-> 0,
     first_close25 |-> 0, recent_high |-> 0, recent_low |-> 0,
     high_slope |-> 0, low_slope |-> 0,
     high_intercept |-> 0, low_intercept |-> 0,
     high_r_squared |-> 0, low_r_squared |-> 0,
     candles |-> <<>>]

\* a series of len bars closing at close that has moved nowhere
Quiet(len, close) ==
    [EmptySeries EXCEPT !.len = len, !.close = close,
                        !.first_close30 = close, !.first_close25 = close,
                        !.consolidation_high = close,
                        !.consolidation_low = close,
                        !.recent_high = close, !.recent_low = close]

\* the longest list of extrema a reversal series holds
MaxPeaks == 5

\* every sequence over values with lo..hi entries
SeqsOf(values, lo, hi) == UNION { [1..n -> values] : n \in lo..hi }

\* n - 1 times the same value: the extreme between consecutive extrema
Between(n, value) == [k \in 1..(n - 1) |-> value]

\* find_peaks cannot place k extrema at the given distance in fewer bars
fits(len, k, distance) == k = 0 \/ len >= distance * (k - 1) + 3

PeakHeights == {1000, 1020, 1100}
TroughLows == {900, 970}
TopCloses == {880, 900, 905, 920}

ValleyDepths == {1000, 985, 900}
CrestHighs == {1100, 1030}
BottomCloses == {1120, 1100, 1095, 1080, 1000}

\* series for detect_head_and_shoulders: just short of and at the 40 bars
HeadAndShouldersSeries ==
    { [Quiet(len, close) EXCEPT !.peaks5 = peaks,
                                !.lows5 = Between(Len(peaks), low)] :
        len \in {39, 40}, close \in TopCloses, low \in TroughLows,
        peaks \in SeqsOf(PeakHeights, 3, MaxPeaks) }

InverseSeries ==
    { [Quiet(len, close) EXCEPT !.valleys5 = valleys,
                                !.highs5 = Between(Len(valleys), high)] :
        len \in {39, 40}, close \in BottomCloses, high \in CrestHighs,
        valleys \in SeqsOf(ValleyDepths, 3, MaxPeaks) }

\* series for detect_double_top: just short of and at the 30 bars
DoubleTopSeries ==
    { [Quiet(len, close) EXCEPT !.peaks10 = peaks,
                                !.lows10 = Between(Len(peaks), low)] :
        len \in {29, 30}, close \in TopCloses, low \in TroughLows \cup {950},
        peaks \in { q \in SeqsOf(PeakHeights, 2, MaxPeaks - 2) :
                      fits(29, Len(q), 10) } }

DoubleBottomSeries ==
    { [Quiet(len, close) EXCEPT !.valleys10 = valleys,
                                !.highs10 = Between(Len(valleys), high)] :
        len \in {29, 30}, close \in BottomCloses,
        high \in CrestHighs \cup {1050},
        valleys \in { q \in SeqsOf(ValleyDepths, 2, MaxPeaks - 2) :
                        fits(29, Len(q), 10) } }

ReversalSeries ==
    HeadAndShouldersSeries \cup InverseSeries
    \cup DoubleTopSeries \cup DoubleBottomSeries

\* the most extrema of one kind in the 50-bar window of a cluster series
MaxTouches == 4

\* extrema within 1% of 100 rupees, and one far from them
LevelPrices == {990, 1000, 1010, 1200}

\* series for the level clusterer: the peaks or the valleys of the window
\* extrema whose clusters overlap in a chain: each is within 2% of the
\* next but the ends are not
OverlapTouches ==
    {<<1000, 1000, 1030, 1015, 1045>>, <<1000, 1015, 1045, 1030, 1045>>}

ClusterSeries ==
    { [Quiet(50, 1000) EXCEPT !.peaks50 = q] :
        q \in SeqsOf(LevelPrices, 0, MaxTouches) \cup OverlapTouches }
    \cup { [Quiet(50, 1000) EXCEPT !.valleys50 = q] :
             q \in SeqsOf(LevelPrices, 0, MaxTouches) \cup OverlapTouches }

ResistanceTouches ==
    {<<>>, <<1000, 1000, 1000>>, <<1000, 1010, 1000, 990>>,
     <<1000, 1000, 1000, 1040, 1040, 1040, 1040>>}
SupportTouches ==
    {<<>>, <<995, 995, 995>>, <<1010, 1010, 1010>>, <<950, 950, 950>>,
     <<950, 950, 950, 800, 800, 800, 800>>}
BreakoutCloses == {940, 975, 980, 989, 1000, 1002, 1010, 1030, 1050}
BreakoutVolumes ==
    {[has_volume |-> FALSE, recent_volume |-> 0, avg_volume |-> 0],
     [has_volume |-> TRUE, recent_volume |-> 100, avg_volume |-> 100],
     [has_volume |-> TRUE, recent_volume |-> 200, avg_volume |-> 100]}

\* series for detect_breakout_patterns: just short of and at the 50 bars
BreakoutSeries ==
    { [Quiet(len, close) EXCEPT !.peaks50 = peaks, !.valleys50 = valleys,
                                !.has_volume = v.has_volume,
                                !.recent_volume = v.recent_volume,
                                !.avg_volume = v.avg_volume] :
        len \in {49, 50}, close \in BreakoutCloses,
        peaks \in ResistanceTouches, valleys \in SupportTouches,
        v \in BreakoutVolumes }

\* no detector has been called and no series is at hand
NoDetect == [name |-> None]

\* series df is at hand and no detector has been called on it
Untried(df) ==
    [series |-> df, name |-> None, result |-> ReturnsNone,
     levels |-> <<>>, min_touches |-> 0]

ScorerIdle ==
    /\ market_condition = "NEUTRAL"
    /\ step = "idle"
    /\ stock_info = [marketCap |-> 0, avg_volume |-> 0]
    /\ holding_info = [present |-> FALSE, pnl_percent |-> 0]
    /\ columns = {}
    /\ latest_rsi = 0
    /\ pattern_analysis = NoReport
    /\ timeframe_scores = [buy |-> 0, sell |-> 0]
    /\ buy_score = 0
    /\ sell_score = 0
    /\ signals = <<>>
    /\ neutral = [buy_score |-> 0, sell_score |-> 0]
    /\ decision = [signal |-> NoKey]
    /\ run = NoRun

InitPatterns ==
    /\ pc = "idle"
    /\ idx = 1
    /\ all_patterns = <<>>
    /\ invoked = {}
    /\ results = <<>>
    /\ log = {}
    /\ vote = NoVote
    /\ report = NoReport
    /\ ScorerIdle
    /\ detect = NoDetect

\* analyze_patterns(df): df None or empty returns at once
CallEmpty ==
    /\ pc = "idle"
    /\ pc' = "returned"
    /\ report' = empty_report
    /\ UNCHANGED <<idx, all_patterns, invoked, results, log, vote>>
    /\ UNCHANGED <<scoreVars, run, detect>>

\* analyze_patterns(df) on a non-empty frame enters the detector loop
CallPatterns ==
    /\ pc = "idle"
    /\ pc' = "detect"
    /\ UNCHANGED <<idx, all_patterns, invoked, results, log, vote, report>>
    /\ UNCHANGED <<scoreVars, run, detect>>

\* one iteration of the detector loop
Detect ==
    /\ pc = "detect"
    /\ idx <= NumDetectors
    /\ \E outcome \in Outcomes(pattern_detectors[idx]) :
          /\ Len(run_detector(all_patterns, pattern_detectors[idx], outcome))
                <= MaxFound
          /\ all_patterns' =
                run_detector(all_patterns, pattern_detectors[idx], outcome)
          /\ log' = IF outcome.raises
                    THEN log \cup {pattern_detectors[idx]}
                    ELSE log
          /\ results' = Append(results, outcome)
    /\ invoked' = invoked \cup {pattern_detectors[idx]}
    /\ idx' = idx + 1
    /\ UNCHANGED <<pc, vote, report>>
    /\ UNCHANGED <<scoreVars, run, detect>>

\* after the loop: filter, sort, vote and return
Aggregate ==
    /\ pc = "detect"
    /\ idx > NumDetectors
    /\ report' = build_report(all_patterns)
    /\ vote' = weighted_signals(sort_by_confidence(filter_valid(all_patterns)))
    /\ pc' = "returned"
    /\ UNCHANGED <<idx, all_patterns, invoked, results, log>>
    /\ UNCHANGED <<scoreVars, run, detect>>

\* the caller drops the report; the analyzer is ready for the next call
Return ==
    /\ pc = "returned"
    /\ pc' = "idle"
    /\ report' = NoReport
    /\ idx' = 1
    /\ all_patterns' = <<>>
    /\ invoked' = {}
    /\ results' = <<>>
    /\ log' = {}
    /\ vote' = NoVote
    /\ UNCHANGED <<scoreVars, run, detect>>

NextPatterns == CallEmpty \/ CallPatterns \/ Detect \/ Aggregate \/ Return

SpecPatterns == InitPatterns /\ [][NextPatterns]_vars

\* ------------------------------------- analyze_patterns, lines 109-132 only
\* frames on which only the listed detectors report and the others return
\* pattern None; a frame is given by the outcome of each detector on it
RECURSIVE Frames(_, _, _, _)
Frames(n, responding, confidences, longest) ==
    IF n = 0 THEN {<<>>}
    ELSE LET name == pattern_detectors[n]
             choices ==
                 IF name \in responding
                 THEN Returns(name, confidences, longest)
                 ELSE IF name = "Candlestick Patterns"
                 THEN {[raises |-> FALSE, results |-> <<>>]}
                 ELSE {Silent}
         IN { Append(df, o) :
                df \in Frames(n - 1, responding, confidences, longest),
                o \in choices }

\* the state at the end of the detector loop on frame df
AfterLoop(df) ==
    /\ pc = "detect"
    /\ idx = NumDetectors + 1
    /\ all_patterns = collect_patterns(df, NumDetectors)
    /\ invoked = {pattern_detectors[n] : n \in 1..NumDetectors}
    /\ results = df
    /\ log = {}
    /\ vote = NoVote
    /\ report = NoReport
    /\ ScorerIdle
    /\ detect = NoDetect

\* confidences around the retention threshold
ReportConfidences == {20, 21, 50}

\* most candlestick patterns of a frame of SpecReport
MaxReportCandles == 2

InitReport ==
    \E df \in Frames(NumDetectors,
                     {"Double Bottom", "Breakout Patterns",
                      "Candlestick Patterns"},
                     ReportConfidences, MaxReportCandles) : AfterLoop(df)

SpecReport == InitReport /\ [][Aggregate]_vars

\* confidences that put the percentages on and around the vote thresholds
VoteConfidences == {25, 30, 35, 40, 70}

InitVote ==
    \E df \in Frames(NumDetectors,
                     {"Double Bottom", "Triangle Patterns", "Flag Patterns",
                      "Pennant Patterns"}, VoteConfidences, 0) : AfterLoop(df)

SpecVote == InitVote /\ [][Aggregate]_vars

\* ================================================== generate_enhanced_signals
\* one score point, scores being kept in twentieths
Point == 20

\* a float NaN; every comparison with it is false
NaN == -1000000

IsNaN(x) == x = NaN
Lt(a, b) == ~IsNaN(a) /\ ~IsNaN(b) /\ a < b
Gt(a, b) == Lt(b, a)
Le(a, b) == ~IsNaN(a) /\ ~IsNaN(b) /\ a <= b
Ge(a, b) == Le(b, a)

\* SmartPortfolioAnalyzer.__init__: PatternAnalyzer() is built, so the
\* pattern analysis is enabled
pattern_analysis_enabled == TRUE

\* indicator columns calculate_advanced_indicators adds to the daily frame,
\* grouped as the scorer tests them; "1w:RSI" is an RSI column on the weekly
\* frame of stock_data
ColumnGroups ==
    { {"RSI"}, {"MACD", "MACD_signal", "MACD_histogram"},
      {"SMA_20", "SMA_50", "SMA_200"}, {"BB_upper", "BB_lower", "BB_middle"},
      {"Volume_SMA"}, {"ADX"}, {"ATR"}, {"1w:RSI"} }

AllColumns == UNION ColumnGroups

\* column sets enumerated: everything, nothing, one column of a group
\* missing
ColumnSets == {AllColumns, {}, AllColumns \ {"SMA_200"}}

has_columns(cols, names) == names \subseteq cols

\* score accumulators and reasons of one call
\* error says that an exception has left the call
NoScores == [buy_score |-> 0, sell_score |-> 0, signals |-> <<>>,
             error |-> FALSE]

\* an uncaught exception ends the call
raise(sc) == [sc EXCEPT !.error = TRUE]

\* data.iloc[-back] on a frame of length rows raises IndexError
iloc_raises(rows, back) == back > rows

add_buy(sc, points, reason) ==
    [sc EXCEPT !.buy_score = @ + points,
               !.signals = IF reason = "" THEN @ ELSE Append(@, reason)]

add_sell(sc, points, reason) ==
    [sc EXCEPT !.sell_score = @ + points,
               !.signals = IF reason = "" THEN @ ELSE Append(@, reason)]

add_reason(sc, reason) == [sc EXCEPT !.signals = Append(@, reason)]

\* lines 349-369: the pattern report enters the scores as
\* overall_confidence / 20
integrate_patterns(sc, pa) ==
    LET voted ==
            IF pa.overall_signal = "BUY"
            THEN add_buy(sc, pa.overall_confidence, "Pattern Analysis")
            ELSE IF pa.overall_signal = "SELL"
            THEN add_sell(sc, pa.overall_confidence, "Pattern Analysis")
            ELSE sc
    IN IF pa.top_3_patterns # <<>> /\ pa.top_3_patterns[1].confidence > 60
       THEN add_reason(voted, "Key Pattern")
       ELSE voted

\* lines 388-393: the RSI vote of one timeframe
timeframe_vote(tf, present, rsi) ==
    IF present /\ ~IsNaN(rsi)
    THEN IF rsi < 30 THEN [tf EXCEPT !.buy = @ + 1]
         ELSE IF rsi > 70 THEN [tf EXCEPT !.sell = @ + 1]
         ELSE tf
    ELSE tf

\* lines 397-411 with latest.get("RSI", 0) in place of the column test
rsi_step_default(sc, present, rsi) ==
    LET value == IF present THEN rsi ELSE 0
    IN IF ~IsNaN(value)
       THEN IF value < 25
            THEN add_buy(sc, 3 * Point, "RSI extremely oversold")
            ELSE IF value < 35 THEN add_buy(sc, 2 * Point, "RSI oversold")
            ELSE IF value > 75
            THEN add_sell(sc, 3 * Point, "RSI extremely overbought")
            ELSE IF value > 65 THEN add_sell(sc, 2 * Point, "RSI overbought")
            ELSE sc
       ELSE sc

\* lines 397-411: 1. RSI analysis
rsi_step(sc, present, rsi) ==
    IF present /\ ~IsNaN(rsi)
    THEN IF rsi < 25 THEN add_buy(sc, 3 * Point, "RSI extremely oversold")
         ELSE IF rsi < 35 THEN add_buy(sc, 2 * Point, "RSI oversold")
         ELSE IF rsi > 75
         THEN add_sell(sc, 3 * Point, "RSI extremely overbought")
         ELSE IF rsi > 65 THEN add_sell(sc, 2 * Point, "RSI overbought")
         ELSE sc
    ELSE sc

\* the MACD analysis without the len(daily_data) > 5 test
macd_step_unguarded(sc, present, bars, last, prev) ==
    IF present /\ ~IsNaN(last)
    THEN IF Gt(last, 0)
         THEN IF iloc_raises(bars, 2) THEN raise(sc)
              ELSE IF Le(prev, 0) THEN add_buy(sc, 2 * Point, "")
              ELSE sc
         ELSE IF Lt(last, 0)
         THEN IF iloc_raises(bars, 2) THEN raise(sc)
              ELSE IF Ge(prev, 0) THEN add_sell(sc, 2 * Point, "")
              ELSE sc
         ELSE sc
    ELSE sc

\* lines 413-428: 2. MACD analysis; bars is len(daily_data), last and prev
\* are MACD_histogram.iloc[-1] and .iloc[-2]
macd_step(sc, present, bars, last, prev) ==
    IF present /\ ~IsNaN(last) /\ bars > 5
    THEN IF Gt(last, 0)
         THEN IF iloc_raises(bars, 2) THEN raise(sc)
              ELSE IF Le(prev, 0) THEN add_buy(sc, 2 * Point, "")
              ELSE sc
         ELSE IF Lt(last, 0)
         THEN IF iloc_raises(bars, 2) THEN raise(sc)
              ELSE IF Ge(prev, 0) THEN add_sell(sc, 2 * Point, "")
              ELSE sc
         ELSE sc
    ELSE sc

\* lines 430-449: 3. moving average analysis
ma_step(sc, present, price, sma20, sma50, sma200) ==
    IF present /\ ~IsNaN(price) /\ ~IsNaN(sma20) /\ ~IsNaN(sma50)
               /\ ~IsNaN(sma200)
    THEN IF price > sma20 /\ sma20 > sma50 /\ sma50 > sma200
         THEN add_buy(sc, 2 * Point, "")
         ELSE IF price < sma20 /\ sma20 < sma50 /\ sma50 < sma200
         THEN add_sell(sc, 2 * Point, "")
         ELSE IF price > sma20 /\ sma20 > sma50 THEN add_buy(sc, Point, "")
         ELSE IF price < sma20 /\ sma20 < sma50 THEN add_sell(sc, Point, "")
         ELSE sc
    ELSE sc

\* (price - bb_lower) / (bb_upper - bb_lower) <= 0.05 on float64 values: a
\* zero denominator gives -inf, nan or +inf, no exception
bb_near_lower(price, upper, lower) ==
    IF upper > lower THEN 20 * (price - lower) <= upper - lower
    ELSE IF upper < lower THEN 20 * (price - lower) >= upper - lower
    ELSE price < lower

\* (price - bb_lower) / (bb_upper - bb_lower) >= 0.95
bb_near_upper(price, upper, lower) ==
    IF upper > lower THEN 20 * (price - lower) >= 19 * (upper - lower)
    ELSE IF upper < lower THEN 20 * (price - lower) <= 19 * (upper - lower)
    ELSE price > lower

\* lines 451-468: 4. Bollinger bands analysis
bb_step(sc, present, price, upper, lower, middle) ==
    IF present /\ ~IsNaN(price) /\ ~IsNaN(upper) /\ ~IsNaN(lower)
               /\ ~IsNaN(middle)
    THEN IF bb_near_lower(price, upper, lower) THEN add_buy(sc, Point, "")
         ELSE IF bb_near_upper(price, upper, lower)
         THEN add_sell(sc, Point, "")
         ELSE sc
    ELSE sc

\* lines 470-478 with the first comparison made inclusive, so that a tie
\* counts as a lead of the buy side
volume_step_ties(sc, present, volume, volume_sma) ==
    IF present /\ ~IsNaN(volume_sma) /\ ~IsNaN(volume)
               /\ 2 * volume > 3 * volume_sma
    THEN IF sc.buy_score >= sc.sell_score THEN add_buy(sc, Point, "")
         ELSE add_sell(sc, Point, "")
    ELSE sc

\* lines 470-478: 5. volume analysis
volume_step(sc, present, volume, volume_sma) ==
    IF present /\ ~IsNaN(volume_sma) /\ ~IsNaN(volume)
               /\ 2 * volume > 3 * volume_sma
    THEN IF sc.buy_score > sc.sell_score THEN add_buy(sc, Point, "")
         ELSE IF sc.sell_score > sc.buy_score THEN add_sell(sc, Point, "")
         ELSE sc
    ELSE sc

\* lines 480-486: 6. ADX trend strength only adds a reason
adx_step(sc, present, adx) == sc

\* lines 488-508: 7. portfolio-specific analysis
position_step(sc, holding) ==
    IF holding.present
    THEN LET pnl_percent == holding.pnl_percent
             stop == IF pnl_percent < -20
                     THEN add_sell(sc, 2 * Point, "Major loss")
                     ELSE IF pnl_percent < -10
                     THEN add_sell(sc, Point, "Loss")
                     ELSE sc
         IN IF pnl_percent > 30 THEN add_sell(stop, Point, "Strong profit")
            ELSE IF pnl_percent > 50
            THEN add_sell(stop, 2 * Point, "Exceptional profit")
            ELSE stop
    ELSE sc

\* the regime step with its two additions swapped
regime_step_swapped(sc, condition) ==
    IF condition = "BEARISH"
    THEN add_buy(sc, Point, "Overall market bearish")
    ELSE IF condition = "BULLISH"
    THEN add_sell(sc, Point, "Overall market bullish")
    ELSE sc

\* lines 510-516: 8. market condition influence
regime_step(sc, condition) ==
    IF condition = "BEARISH"
    THEN add_sell(sc, Point, "Overall market bearish")
    ELSE IF condition = "BULLISH"
    THEN add_buy(sc, Point, "Overall market bullish")
    ELSE sc

\* lines 518-524: 9. multi-timeframe confirmation
mtf_step(sc, tf) ==
    IF tf.buy > tf.sell
    THEN add_buy(sc, Point, "Multi-timeframe analysis supports BUY")
    ELSE IF tf.sell > tf.buy
    THEN add_sell(sc, Point, "Multi-timeframe analysis supports SELL")
    ELSE sc

\* round(x, 1) of x = num / den >= 0, in tenths, ties to even
round_tenths(num, den) ==
    LET q == (10 * num) \div den
        r == (10 * num) % den
    IN IF 2 * r > den THEN q + 1
       ELSE IF 2 * r = den THEN q + (q % 2)
       ELSE q

\* the final signal with >= in place of > for BUY
final_signal_eager(buy, sell) ==
    IF buy + sell = 0 THEN "HOLD"
    ELSE IF buy >= sell THEN "BUY"
    ELSE IF sell > buy THEN "SELL"
    ELSE "HOLD"

\* lines 527-543: the final signal
final_signal(buy, sell) ==
    IF buy + sell = 0 THEN "HOLD"
    ELSE IF buy > sell THEN "BUY"
    ELSE IF sell > buy THEN "SELL"
    ELSE "HOLD"

\* the returned confidence with the clamp at 100
final_confidence_wide(buy, sell) ==
    LET total_score == buy + sell
        signal_strength == Abs(buy - sell)
        m == Max2(total_score, Point)
    IN IF total_score = 0 THEN 0
       ELSE IF buy = sell THEN 300
       ELSE Min2(1000,
                 Max2(0, round_tenths(Min2(360 * m, 400 * signal_strength)
                                      + Min2(40 * m, signal_strength * m),
                                      4 * m)))

\* lines 527-543 and 557: the returned confidence, in tenths.  With
\* m = max(total_score, 1) the sum base_confidence + min(10, strength * 5)
\* is (min(360 m, 400 strength) + min(40 m, strength m)) / (4 m), scores in
\* twentieths
final_confidence(buy, sell) ==
    LET total_score == buy + sell
        signal_strength == Abs(buy - sell)
        m == Max2(total_score, Point)
    IN IF total_score = 0 THEN 0
       ELSE IF buy = sell THEN 300
       ELSE Min2(950,
                 Max2(0, round_tenths(Min2(360 * m, 400 * signal_strength)
                                      + Min2(40 * m, signal_strength * m),
                                      4 * m)))

\* lines 545-550: risk_metrics["volatility"], atr_high saying that the
\* latest ATR is above 1.5 times its mean
risk_metrics(present, atr, atr_high) ==
    IF present /\ ~IsNaN(atr)
    THEN IF atr_high THEN "High" ELSE "Normal"
    ELSE NoKey

\* lines 322-328: the decision returned without data
no_data_decision ==
    [keys |-> {"signal", "confidence", "reasons", "patterns"},
     signal |-> "HOLD",
     confidence |-> 0,
     reasons |-> <<"No data available">>,
     buy_score |-> 0,
     sell_score |-> 0,
     volatility |-> NoKey,
     patterns |-> NoReport]

\* lines 555-580: the decision returned after scoring
scored_decision(sc, volatility, pa) ==
    [keys |-> {"signal", "confidence", "reasons", "buy_score", "sell_score",
               "risk_metrics", "patterns"},
     signal |-> final_signal(sc.buy_score, sc.sell_score),
     confidence |-> final_confidence(sc.buy_score, sc.sell_score),
     reasons |-> sc.signals,
     buy_score |-> sc.buy_score,
     sell_score |-> sc.sell_score,
     volatility |-> volatility,
     patterns |-> pa]

\* lines 279-313: the regime assess_market_condition computes from the
\* latest Nifty row
classify_market(rsi, close, sma20, sma50, macd, macd_signal) ==
    LET bull_rsi == IF Gt(rsi, 60) THEN 1 ELSE 0
        bear_rsi == IF ~Gt(rsi, 60) /\ Lt(rsi, 40) THEN 1 ELSE 0
        bull_ma == IF Gt(close, sma20) /\ Gt(sma20, sma50) THEN 2 ELSE 0
        bear_ma == IF bull_ma = 0 /\ Lt(close, sma20) /\ Lt(sma20, sma50)
                   THEN 2 ELSE 0
        bull_macd == IF Gt(macd, macd_signal) THEN 1 ELSE 0
        bear_macd == 1 - bull_macd
        bullish_signals == bull_rsi + bull_ma + bull_macd
        bearish_signals == bear_rsi + bear_ma + bear_macd
    IN IF bullish_signals > bearish_signals + 1 THEN "BULLISH"
       ELSE IF bearish_signals > bullish_signals + 1 THEN "BEARISH"
       ELSE "NEUTRAL"

\* ------------------------------------------------------------ input values
\* len(daily_data) of a non-empty daily frame
BarCounts == {1, 5, 6}

RsiValues == {NaN, 20, 30, 50, 80}
HistValues == {NaN, -1, 0, 1}
PriceValues == {NaN, 90, 95, 100, 105, 110}
ClosePrice == 100
BandValues == {NaN, 80, 99, 100, 101, 120}
VolumeValues == {100, 200}
PnlValues == {-25, -15, 0, 40, 60}

\* stock_data["info"]["marketCap"] in units of 1e9 and the mean daily volume
\* in thousands
FundamentalValues ==
    { [marketCap |-> 10, avg_volume |-> 500],
      [marketCap |-> 1, avg_volume |-> 50] }

\* frames the scorer is called on: only the breakout detector reports
ScorerFrames == Frames(NumDetectors, {"Breakout Patterns"}, {60}, 0)

\* ----------------------------------------------------------- the analyzer
AggregatorIdle ==
    /\ pc = "idle"
    /\ idx = 1
    /\ all_patterns = <<>>
    /\ invoked = {}
    /\ results = <<>>
    /\ log = {}
    /\ vote = NoVote
    /\ report = NoReport

Init == AggregatorIdle /\ ScorerIdle /\ detect = NoDetect

scores == [buy_score |-> buy_score, sell_score |-> sell_score,
           signals |-> signals, error |-> FALSE]

neutral_scores == [buy_score |-> neutral.buy_score,
                   sell_score |-> neutral.sell_score, signals |-> <<>>,
                   error |-> FALSE]

\* the scores become sc; the run of the same call under regime NEUTRAL
\* takes nsc
Advance(sc, nsc, next_step) ==
    /\ buy_score' = sc.buy_score
    /\ sell_score' = sc.sell_score
    /\ signals' = sc.signals
    /\ neutral' = [buy_score |-> nsc.buy_score, sell_score |-> nsc.sell_score]
    /\ step' = IF sc.error THEN "raised" ELSE next_step

\* assess_market_condition, lines 269-318
AssessMarketCondition ==
    /\ step = "idle"
    /\ \/ \* nifty_data.empty: returns "NEUTRAL", the flag is not written
          market_condition' = market_condition
       \/ \* an exception in the assessment
          market_condition' = "NEUTRAL"
       \/ \E rsi \in {NaN, 30, 50, 70}, sma20, sma50 \in {95, 105},
             macd \in {-1, 1} :
             market_condition' =
                 classify_market(rsi, ClosePrice, sma20, sma50, macd, 0)
    /\ UNCHANGED <<step, stock_info, holding_info, columns, latest_rsi,
                   pattern_analysis, timeframe_scores, buy_score, sell_score,
                   signals, neutral, decision>>
    /\ UNCHANGED <<aggVars, run, detect>>

\* generate_enhanced_signals, lines 322-328: no stock_data, no "daily" key
\* or an empty daily frame
CallNoData ==
    /\ step = "idle"
    /\ decision' = no_data_decision
    /\ step' = "done"
    /\ UNCHANGED <<market_condition, stock_info, holding_info, columns,
                   latest_rsi, pattern_analysis, timeframe_scores, buy_score,
                   sell_score, signals, neutral>>
    /\ UNCHANGED <<aggVars, run, detect>>

\* generate_enhanced_signals, lines 330-334
CallScorer ==
    /\ step = "idle"
    /\ stock_info' \in FundamentalValues
    /\ columns' \in ColumnSets
    /\ latest_rsi' \in IF "RSI" \in columns' THEN RsiValues ELSE {NaN}
    /\ Advance(NoScores, NoScores, "patterns")
    /\ UNCHANGED <<market_condition, holding_info, pattern_analysis,
                   timeframe_scores, decision>>
    /\ UNCHANGED <<aggVars, run, detect>>

\* lines 336-377: pattern analysis
PatternStep ==
    /\ step = "patterns"
    /\ IF pattern_analysis_enabled
       THEN \E df \in ScorerFrames :
               /\ pattern_analysis' = analyze_patterns(df)
               /\ Advance(integrate_patterns(scores, analyze_patterns(df)),
                          integrate_patterns(neutral_scores,
                                             analyze_patterns(df)),
                          "timeframes")
       ELSE /\ pattern_analysis' = NoReport
            /\ Advance(scores, neutral_scores, "timeframes")
    /\ UNCHANGED <<market_condition, stock_info, holding_info, columns,
                   latest_rsi, timeframe_scores, decision>>
    /\ UNCHANGED <<aggVars, run, detect>>

\* lines 379-393: the RSI votes of the frames of stock_data; the 1d and 1mo
\* frames carry no RSI column
TimeframeStep ==
    /\ step = "timeframes"
    /\ \E weekly \in RsiValues :
          timeframe_scores' =
              timeframe_vote(
                  timeframe_vote([buy |-> 0, sell |-> 0],
                                 "1w:RSI" \in columns, weekly),
                  "RSI" \in columns, latest_rsi)
    /\ step' = "rsi"
    /\ UNCHANGED <<market_condition, stock_info, holding_info, columns,
                   latest_rsi, pattern_analysis, buy_score, sell_score,
                   signals, neutral, decision>>
    /\ UNCHANGED <<aggVars, run, detect>>

Unchanged ==
    /\ UNCHANGED <<market_condition, stock_info, columns, latest_rsi,
                   pattern_analysis, timeframe_scores, decision>>
    /\ UNCHANGED <<aggVars, run, detect>>

RsiStep ==
    /\ step = "rsi"
    /\ Advance(rsi_step(scores, "RSI" \in columns, latest_rsi),
               rsi_step(neutral_scores, "RSI" \in columns, latest_rsi),
               "macd")
    /\ UNCHANGED holding_info
    /\ Unchanged

MacdStep ==
    /\ step = "macd"
    /\ \E bars \in BarCounts, last, prev \in HistValues :
          LET present == has_columns(columns, {"MACD", "MACD_signal",
                                               "MACD_histogram"})
          IN Advance(macd_step(scores, present, bars, last, prev),
                     macd_step(neutral_scores, present, bars, last, prev),
                     "ma")
    /\ UNCHANGED holding_info
    /\ Unchanged

MaStep ==
    /\ step = "ma"
    /\ \E sma20, sma50, sma200 \in PriceValues :
          LET present == has_columns(columns, {"SMA_20", "SMA_50", "SMA_200"})
          IN Advance(ma_step(scores, present, ClosePrice, sma20, sma50,
                             sma200),
                     ma_step(neutral_scores, present, ClosePrice, sma20,
                             sma50, sma200),
                     "bb")
    /\ UNCHANGED holding_info
    /\ Unchanged

BbStep ==
    /\ step = "bb"
    /\ \E upper, lower \in BandValues :
          LET present == has_columns(columns, {"BB_upper", "BB_lower",
                                               "BB_middle"})
          IN Advance(bb_step(scores, present, ClosePrice, upper, lower,
                             ClosePrice),
                     bb_step(neutral_scores, present, ClosePrice, upper,
                             lower, ClosePrice),
                     "volume")
    /\ UNCHANGED holding_info
    /\ Unchanged

VolumeStep ==
    /\ step = "volume"
    /\ \E volume \in VolumeValues, volume_sma \in {NaN, 100} :
          Advance(volume_step(scores, "Volume_SMA" \in columns, volume,
                              volume_sma),
                  volume_step(neutral_scores, "Volume_SMA" \in columns,
                              volume, volume_sma),
                  "adx")
    /\ UNCHANGED holding_info
    /\ Unchanged

AdxStep ==
    /\ step = "adx"
    /\ \E adx \in {NaN, 15, 22, 30} :
          Advance(adx_step(scores, "ADX" \in columns, adx),
                  adx_step(neutral_scores, "ADX" \in columns, adx),
                  "position")
    /\ UNCHANGED holding_info
    /\ Unchanged

\* holding_info is an argument of the call; it is first read here
PositionStep ==
    /\ step = "position"
    /\ \E holding \in {[present |-> FALSE, pnl_percent |-> 0]} \cup
                       {[present |-> TRUE, pnl_percent |-> p] :
                           p \in PnlValues} :
          /\ holding_info' = holding
          /\ Advance(position_step(scores, holding),
                     position_step(neutral_scores, holding), "regime")
    /\ Unchanged

RegimeStep ==
    /\ step = "regime"
    /\ Advance(regime_step(scores, market_condition),
               regime_step(neutral_scores, "NEUTRAL"), "mtf")
    /\ UNCHANGED holding_info
    /\ Unchanged

MtfStep ==
    /\ step = "mtf"
    /\ Advance(mtf_step(scores, timeframe_scores),
               mtf_step(neutral_scores, timeframe_scores), "final")
    /\ UNCHANGED holding_info
    /\ Unchanged

\* lines 526-580: final signal, risk metrics and the returned dict
FinalStep ==
    /\ step = "final"
    /\ \E atr \in {NaN, 5}, atr_high \in BOOLEAN :
          decision' = scored_decision(
                          scores,
                          risk_metrics("ATR" \in columns, atr, atr_high),
                          pattern_analysis)
    /\ step' = "done"
    /\ UNCHANGED <<market_condition, stock_info, holding_info, columns,
                   latest_rsi, pattern_analysis, timeframe_scores, buy_score,
                   sell_score, signals, neutral>>
    /\ UNCHANGED <<aggVars, run, detect>>

\* the caller takes the decision; the locals of the call are gone
ScorerReturn ==
    /\ step = "done"
    /\ step' = "idle"
    /\ stock_info' = [marketCap |-> 0, avg_volume |-> 0]
    /\ holding_info' = [present |-> FALSE, pnl_percent |-> 0]
    /\ columns' = {}
    /\ latest_rsi' = 0
    /\ pattern_analysis' = NoReport
    /\ timeframe_scores' = [buy |-> 0, sell |-> 0]
    /\ buy_score' = 0
    /\ sell_score' = 0
    /\ signals' = <<>>
    /\ neutral' = [buy_score |-> 0, sell_score |-> 0]
    /\ decision' = [signal |-> NoKey]
    /\ UNCHANGED market_condition
    /\ UNCHANGED <<aggVars, run, detect>>

Next ==
    \/ AssessMarketCondition
    \/ CallNoData
    \/ CallScorer
    \/ PatternStep
    \/ TimeframeStep
    \/ RsiStep
    \/ MacdStep
    \/ MaStep
    \/ BbStep
    \/ VolumeStep
    \/ AdxStep
    \/ PositionStep
    \/ RegimeStep
    \/ MtfStep
    \/ FinalStep
    \/ ScorerReturn

Spec == Init /\ [][Next]_vars

\* ====================================================== run_complete_analysis
\* generate_enhanced_signals as a function of its inputs and of the flag it
\* reads: the steps of lines 320-580 in order
generate_enhanced_signals(in, condition) ==
    IF in.daily_empty THEN no_data_decision
    ELSE
    LET cols == in.columns
        pa == IF pattern_analysis_enabled THEN analyze_patterns(in.df)
              ELSE NoReport
        s0 == IF pattern_analysis_enabled
              THEN integrate_patterns(NoScores, pa) ELSE NoScores
        tf == timeframe_vote(timeframe_vote([buy |-> 0, sell |-> 0],
                                            "1w:RSI" \in cols, in.weekly_rsi),
                             "RSI" \in cols, in.rsi)
        s1 == rsi_step(s0, "RSI" \in cols, in.rsi)
        s2 == macd_step(s1, has_columns(cols, {"MACD", "MACD_signal",
                                               "MACD_histogram"}),
                        in.bars, in.macd_last, in.macd_prev)
        s3 == ma_step(s2, has_columns(cols, {"SMA_20", "SMA_50", "SMA_200"}),
                      in.close, in.sma20, in.sma50, in.sma200)
        s4 == bb_step(s3, has_columns(cols, {"BB_upper", "BB_lower",
                                             "BB_middle"}),
                      in.close, in.bb_upper, in.bb_lower, in.close)
        s5 == volume_step(s4, "Volume_SMA" \in cols, in.volume,
                          in.volume_sma)
        s6 == adx_step(s5, "ADX" \in cols, in.adx)
        s7 == position_step(s6, in.holding)
        s8 == regime_step(s7, condition)
        s9 == mtf_step(s8, tf)
    IN scored_decision(s9, risk_metrics("ATR" \in cols, in.atr, in.atr_high),
                       pa)

\* most holdings one portfolio run analyses
MaxHoldings == 2

\* a holding whose indicators are all neutral but for the daily RSI and the
\* position
RunInput(rsi, holding) ==
    [daily_empty |-> FALSE, columns |-> AllColumns,
     df |-> [n \in 1..NumDetectors |->
                IF pattern_detectors[n] = "Candlestick Patterns"
                THEN [raises |-> FALSE, results |-> <<>>] ELSE Silent],
     rsi |-> rsi, weekly_rsi |-> 50, bars |-> 6, macd_last |-> 1,
     macd_prev |-> 1, close |-> ClosePrice, sma20 |-> ClosePrice,
     sma50 |-> ClosePrice, sma200 |-> ClosePrice, bb_upper |-> 120,
     bb_lower |-> 80, volume |-> 100, volume_sma |-> 100, adx |-> 22,
     holding |-> holding, atr |-> 5, atr_high |-> FALSE]

\* holdings on whose bars the breakout detector may report: with the
\* latest volume at its average and at twice its average
PatternInputs ==
    { [RunInput(rsi, [present |-> TRUE, pnl_percent |-> p])
          EXCEPT !.df = df, !.volume = volume] :
        rsi \in {30, 50}, p \in {-25, 0}, df \in ScorerFrames,
        volume \in {100, 200} }

RunInputs ==
    { RunInput(rsi, [present |-> TRUE, pnl_percent |-> p]) :
        rsi \in {20, 30, 50, 80}, p \in {-25, 0, 40} }
    \cup PatternInputs

\* lines 644-646: fetch_real_portfolio_data gave a portfolio of n holdings
RunStart ==
    /\ run.phase = "idle"
    /\ \E n \in 0..MaxHoldings :
          run' = [phase |-> "assess", holdings |-> n, writes |-> 0,
                  regimes |-> {}, returned |-> None, scored |-> <<>>]
    /\ UNCHANGED <<aggVars, scoreVars, detect>>

\* line 649: self.assess_market_condition(); writes counts the stores to
\* self.market_condition, returned is the value of the call
RunAssess ==
    /\ run.phase = "assess"
    /\ \/ \* nifty_data.empty: returns "NEUTRAL", the flag is not written
          /\ market_condition' = market_condition
          /\ run' = [run EXCEPT !.phase = "holdings",
                                !.returned = "NEUTRAL"]
       \/ \* an exception in the assessment
          /\ market_condition' = "NEUTRAL"
          /\ run' = [run EXCEPT !.phase = "holdings", !.writes = @ + 1,
                                !.returned = "NEUTRAL"]
       \/ \E rsi \in {NaN, 30, 50, 70}, sma20, sma50 \in {95, 105},
             macd \in {-1, 1} :
             /\ market_condition' =
                    classify_market(rsi, ClosePrice, sma20, sma50, macd, 0)
             /\ run' = [run EXCEPT !.phase = "holdings", !.writes = @ + 1,
                                   !.returned = market_condition']
    /\ UNCHANGED <<step, stock_info, holding_info, columns, latest_rsi,
                   pattern_analysis, timeframe_scores, buy_score, sell_score,
                   signals, neutral, decision>>
    /\ UNCHANGED <<aggVars, detect>>

\* lines 659-727: one holding of the loop; regimes collects the values of
\* the flag the scoring calls of the run have read, scored holds the data
\* of the holding scored last
RunHolding ==
    /\ run.phase = "holdings"
    /\ run.holdings > 0
    /\ \/ \* lines 706-725: no daily data, the scorer is not called
          /\ decision' = [signal |-> NoKey]
          /\ run' = [run EXCEPT !.holdings = @ - 1, !.scored = <<>>]
       \/ \E in \in RunInputs :
             /\ decision' = generate_enhanced_signals(in, market_condition)
             /\ run' = [run EXCEPT !.holdings = @ - 1,
                                   !.regimes = @ \cup {market_condition},
                                   !.scored = <<in>>]
    /\ UNCHANGED <<market_condition, step, stock_info, holding_info, columns,
                   latest_rsi, pattern_analysis, timeframe_scores, buy_score,
                   sell_score, signals, neutral>>
    /\ UNCHANGED <<aggVars, detect>>

\* lines 727-: the loop is over, the report is generated
RunFinish ==
    /\ run.phase = "holdings"
    /\ run.holdings = 0
    /\ run' = NoRun
    /\ decision' = [signal |-> NoKey]
    /\ UNCHANGED <<market_condition, step, stock_info, holding_info, columns,
                   latest_rsi, pattern_analysis, timeframe_scores, buy_score,
                   sell_score, signals, neutral>>
    /\ UNCHANGED <<aggVars, detect>>

NextRun == RunStart \/ RunAssess \/ RunHolding \/ RunFinish

SpecRun == Init /\ [][NextRun]_vars

\* ------------------------------------------------ the detectors, one call
\* the series the detectors are called on
\* fitted trendlines: slope and r-squared in hundredths
TrendSlopes == {-20, -7, 0, 20}
TrendFits == {50, 60, 100}

\* series for detect_triangle_patterns: just short of and at the 40 bars
TriangleSeries ==
    { [Quiet(len, close) EXCEPT !.tri_peaks = n, !.tri_valleys = 3,
                                !.peak_slope = ps, !.valley_slope = vs,
                                !.peak_r_squared = pr,
                                !.valley_r_squared = vr,
                                !.resistance_level = 1000,
                                !.support_level = 900,
                                !.upper_line = 1000, !.lower_line = 900,
                                !.has_volume = TRUE,
                                !.recent10_volume = vol,
                                !.earlier_volume = 100] :
        len \in {39, 40}, close \in {890, 950, 990}, n \in {2, 3},
        ps \in TrendSlopes, vs \in {-ps : ps \in TrendSlopes},
        pr \in TrendFits, vr \in TrendFits, vol \in {80, 100} }

\* the close 30 (25) bars back, for moves of -12%, -9%, 0, 9%, 12% and 40%
PoleStarts == {1136, 1099, 1000, 917, 893, 714}

\* series for detect_flag_patterns and detect_pennant_patterns: around the
\* 30 and the 25 bars, closing at 100 in a consolidation of the given range
ContinuationSeries ==
    { [Quiet(len, 1000) EXCEPT !.first_close30 = first,
                               !.first_close25 = first,
                               !.consolidation_high = range[2],
                               !.consolidation_low = range[1],
                               !.recent_high = range[2],
                               !.recent_low = range[1],
                               !.high_slope = slopes[1],
                               !.low_slope = slopes[2],
                               !.high_intercept = range[2],
                               !.low_intercept = range[1],
                               !.high_r_squared = fit[1],
                               !.low_r_squared = fit[2]] :
        len \in {24, 25, 29, 30}, first \in PoleStarts,
        range \in {<<995, 1005>>, <<950, 1020>>, <<900, 1050>>,
                   <<980, 1000>>},
        slopes \in {<<-20, 20>>, <<-20, 5>>, <<0, 0>>},
        fit \in {<<90, 90>>, <<30, 90>>} }

\* candles, as <<open, high, low, close>>: a hammer shape, a long falling
\* and a long rising candle, a small one and a flat one
CandleShapes ==
    { [open |-> c[1], high |-> c[2], low |-> c[3], close |-> c[4]] :
        c \in {<<1000, 1001, 990, 1001>>, <<1100, 1100, 985, 985>>,
               <<980, 1120, 980, 1120>>, <<990, 1010, 980, 1000>>,
               <<1000, 1000, 1000, 1000>>} }

\* series for detect_candlestick_patterns: 4 bars, and 5 bars that are
\* all inside its window of 10
\* five bars without shadows: a flat one, a rise, a fall from a gap up
\* that gives back a quarter of the rise beyond its midpoint (Dark Cloud
\* Cover at 50), a small fall and a rise past the midpoint of the long
\* fall (Morning Star at 70)
MarginCandles ==
    << [open |-> 1000, high |-> 1000, low |-> 1000, close |-> 1000],
       [open |-> 1000, high |-> 1040, low |-> 1000, close |-> 1040],
       [open |-> 1050, high |-> 1050, low |-> 1010, close |-> 1010],
       [open |-> 1010, high |-> 1010, low |-> 1005, close |-> 1005],
       [open |-> 1005, high |-> 1040, low |-> 1005, close |-> 1040] >>

CandleSeries ==
    { [Quiet(Len(candles), candles[Len(candles)].close)
          EXCEPT !.candles = candles] :
        candles \in SeqsOf(CandleShapes, 4, 5) \cup {MarginCandles} }

AllSeries ==
    ReversalSeries \cup ClusterSeries \cup BreakoutSeries
    \cup TriangleSeries \cup ContinuationSeries \cup CandleSeries

\* frames for the aggregator whose detectors report at the ends of the
\* confidences the detectors produce
EdgeConfidences == {40, 90}

\* either a series on which no detector has been called yet, or the end of
\* the detector loop of analyze_patterns
InitDetect ==
    \/ /\ AggregatorIdle
       /\ ScorerIdle
       /\ \E df \in AllSeries : detect = Untried(df)
    \/ \E df \in Frames(NumDetectors,
                        {"Head and Shoulders", "Breakout Patterns"},
                        EdgeConfidences, 0) : AfterLoop(df)

\* detector `name` is called on the series and returns result
Called(name, result) ==
    /\ pc = "idle"
    /\ detect.name = None
    /\ detect' = [detect EXCEPT !.name = name, !.result = result]
    /\ UNCHANGED <<aggVars, scoreVars, run>>

DetectHeadAndShoulders ==
    Called("Head and Shoulders", detect_head_and_shoulders(detect.series))

DetectInverseHeadAndShoulders ==
    Called("Inverse Head and Shoulders",
           detect_inverse_head_and_shoulders(detect.series))

DetectDoubleTop == Called("Double Top", detect_double_top(detect.series))

DetectDoubleBottom ==
    Called("Double Bottom", detect_double_bottom(detect.series))

DetectBreakout ==
    Called("Breakout Patterns", detect_breakout_patterns(detect.series))

\* find_support_levels(lows, min_touches) on the window's valleys
FindSupportLevels ==
    /\ pc = "idle"
    /\ detect.name = None
    /\ \E min_touches \in {3, 4} :
          detect' = [detect EXCEPT
                        !.name = "find_support_levels",
                        !.levels = find_levels(detect.series.valleys50,
                                               min_touches),
                        !.min_touches = min_touches]
    /\ UNCHANGED <<aggVars, scoreVars, run>>

\* find_resistance_levels(highs, min_touches) on the window's peaks
FindResistanceLevels ==
    /\ pc = "idle"
    /\ detect.name = None
    /\ \E min_touches \in {3, 4} :
          detect' = [detect EXCEPT
                        !.name = "find_resistance_levels",
                        !.levels = find_levels(detect.series.peaks50,
                                               min_touches),
                        !.min_touches = min_touches]
    /\ UNCHANGED <<aggVars, scoreVars, run>>

DetectTriangle ==
    Called("Triangle Patterns", detect_triangle_patterns(detect.series))

DetectFlag == Called("Flag Patterns", detect_flag_patterns(detect.series))

DetectPennant ==
    Called("Pennant Patterns", detect_pennant_patterns(detect.series))

DetectCandlestick ==
    Called("Candlestick Patterns", detect_candlestick_patterns(detect.series))

NextDetect ==
    \/ DetectHeadAndShoulders
    \/ DetectInverseHeadAndShoulders
    \/ DetectDoubleTop
    \/ DetectDoubleBottom
    \/ DetectBreakout
    \/ DetectTriangle
    \/ DetectFlag
    \/ DetectPennant
    \/ DetectCandlestick
    \/ FindSupportLevels
    \/ FindResistanceLevels
    \/ Aggregate

SpecDetect == InitDetect /\ [][NextDetect]_vars

\* ================================================================ claims
\* a report of the non-empty path is held by the caller
Reported == pc = "returned" /\ "all_patterns" \in report.keys

\* the entry of the report that the n-th detector's result r became
FromDetector(entry, n, r) ==
    /\ entry.pattern = r.pattern
    /\ entry.signal = r.signal
    /\ entry.confidence = r.confidence
    /\ IF pattern_detectors[n] = "Candlestick Patterns"
       THEN entry.category = "Candlestick"
       ELSE entry.detector = pattern_detectors[n]

\* what the n-th detector call offers to the report: the named patterns it
\* returned with confidence above 20, nothing if it raised
Candidates(n) ==
    IF results[n].raises THEN {}
    ELSE { i \in DOMAIN results[n].results :
             /\ results[n].results[i].pattern # None
             /\ results[n].results[i].confidence > 20 }

\* the named patterns the n-th detector call returned, none if it raised
Named(n) ==
    IF results[n].raises THEN {}
    ELSE { i \in DOMAIN results[n].results :
             results[n].results[i].pattern # None }

\* C1: detector failures are isolated.  Throughout the detector loop the
\* collected list holds exactly the named patterns of the calls that did not
\* raise, whatever raised before or after them.  When analyze_patterns returns, all
\* nine detectors were invoked whichever of them raised, exactly the raising
\* ones were logged, no entry of the report comes from a raising detector,
\* and every pattern a non-raising detector returned (before or after a
\* failure) with confidence above 20 is in the report, which holds nothing
\* else.
C1_FailureIsolation ==
    /\ pc \in {"detect", "returned"} =>
        /\ \A n \in DOMAIN results : \A i \in Named(n) :
              \E j \in DOMAIN all_patterns :
                  FromDetector(all_patterns[j], n, results[n].results[i])
        /\ Len(all_patterns) =
              Cardinality({ <<n, i>> \in (DOMAIN results) \X (1..3) :
                              i \in Named(n) })
    /\ Reported =>
        /\ invoked = {pattern_detectors[n] : n \in 1..NumDetectors}
        /\ Len(results) = NumDetectors
        /\ log = {pattern_detectors[n] : n \in {m \in 1..NumDetectors :
                                                  results[m].raises}}
        /\ \A n \in 1..NumDetectors :
              /\ results[n].raises =>
                    \A j \in DOMAIN report.all_patterns :
                        IF pattern_detectors[n] = "Candlestick Patterns"
                        THEN report.all_patterns[j].category # "Candlestick"
                        ELSE report.all_patterns[j].detector
                                # pattern_detectors[n]
              /\ \A i \in Candidates(n) :
                    \E j \in DOMAIN report.all_patterns :
                        FromDetector(report.all_patterns[j], n,
                                     results[n].results[i])
        /\ report.patterns_detected.value =
              Cardinality({ <<n, i>> \in (1..NumDetectors) \X (1..3) :
                              i \in Candidates(n) })

\* a run in which a detector raised between two detectors whose patterns
\* both reached the report
C1_Witness ==
    /\ Reported
    /\ \E a, b, c \in 1..NumDetectors :
          /\ a < b /\ b < c
          /\ Candidates(a) # {} /\ results[b].raises /\ Candidates(c) # {}
    /\ Len(report.all_patterns) = 2

\* number of occurrences of e in seq
Occurrences(seq, e) == Cardinality({i \in DOMAIN seq : seq[i] = e})

\* C2: all_patterns of the report holds exactly the collected results with
\* confidence strictly above 20 (a result at exactly 20 is dropped), in
\* non-increasing confidence order, and top_3_patterns is its first
\* min(3, n) entries.
C2_RetainedRankedTop3 ==
    Reported =>
        LET kept == report.all_patterns
            n == Len(kept)
        IN /\ \A i \in DOMAIN all_patterns :
                 Occurrences(kept, all_patterns[i]) =
                     IF all_patterns[i].confidence > 20
                     THEN Occurrences(all_patterns, all_patterns[i])
                     ELSE 0
           /\ \A j \in DOMAIN kept : Occurrences(all_patterns, kept[j]) > 0
           /\ \A j \in 1..n - 1 : kept[j].confidence >= kept[j + 1].confidence
           /\ report.top_3_patterns = SubSeq(kept, 1, IF n < 3 THEN n ELSE 3)

\* a report of four retained patterns, cut to three, with a result at
\* exactly 20 dropped
C2_Witness ==
    /\ Reported
    /\ \E i \in DOMAIN all_patterns : all_patterns[i].confidence = 20
    /\ \E i \in DOMAIN all_patterns : all_patterns[i].confidence = 21
    /\ Len(report.all_patterns) = 3
    /\ Len(report.top_3_patterns) = 3
    /\ report.all_patterns[1].confidence > report.all_patterns[3].confidence

\* the decision rule of the vote on the percentages 100 * w / total_weight
VoteCalls(side, other) ==
    /\ 100 * vote[side] > 100 * vote[other] + 15 * vote.total_weight
    /\ 100 * vote[side] > 30 * vote.total_weight

\* the largest of the three weighted sums
VoteMax == Max2(vote.BUY, Max2(vote.SELL, vote.HOLD))

\* the signal half of C3
VoteSignalRule ==
    /\ report.overall_signal \in Signals
    /\ report.overall_signal = "BUY" <=> VoteCalls("BUY", "SELL")
    /\ report.overall_signal = "SELL" <=> VoteCalls("SELL", "BUY")

\* C3 as stated: the overall confidence is the winning percentage itself,
\* capped at 85 (BUY/SELL) or 70 (HOLD)
C3_AsStated ==
    Reported /\ report.all_patterns # <<>> =>
        /\ VoteSignalRule
        /\ report.overall_confidence * vote.total_weight =
              IF report.overall_signal = "HOLD"
              THEN Min2(70 * vote.total_weight, 100 * VoteMax)
              ELSE Min2(85 * vote.total_weight,
                        100 * vote[report.overall_signal])

\* C3 (amended): BUY exactly when buy% > sell% + 15 and buy% > 30, SELL
\* exactly in the symmetric case, HOLD otherwise; the overall confidence is
\* the integer part of the winning percentage capped at 85 for BUY/SELL, the
\* integer part of the largest percentage capped at 70 for HOLD, and HOLD
\* with 0 when no pattern is retained.
C3_VoteRule ==
    Reported =>
        IF report.all_patterns = <<>>
        THEN report.overall_signal = "HOLD" /\ report.overall_confidence = 0
        ELSE /\ VoteSignalRule
             /\ report.overall_confidence =
                   IF report.overall_signal = "HOLD"
                   THEN Min2(70, (100 * VoteMax) \div vote.total_weight)
                   ELSE Min2(85, (100 * vote[report.overall_signal])
                                    \div vote.total_weight)

\* a BUY vote whose percentage is not a whole number and below the cap
C3_Witness ==
    /\ Reported
    /\ report.overall_signal = "BUY"
    /\ (100 * vote.BUY) % vote.total_weight # 0
    /\ report.overall_confidence < 85

\* the multiplier C4 gives a report entry, in tenths
ClaimedMultiplier(entry) ==
    CASE entry.detector \in {"Head and Shoulders", "Inverse Head and Shoulders",
                             "Double Top", "Double Bottom"} -> 15
      [] entry.detector = "Breakout Patterns" -> 13
      [] entry.detector \in {"Triangle Patterns", "Flag Patterns",
                             "Pennant Patterns"} -> 10
      [] entry.detector = NoKey /\ entry.category = "Candlestick" -> 8
      [] OTHER -> 5

RECURSIVE ClaimedWeight(_, _)
ClaimedWeight(patterns, signal) ==
    IF patterns = <<>> THEN 0
    ELSE ClaimedWeight(Tail(patterns), signal)
         + IF signal \in {Head(patterns).signal, "any"}
           THEN Head(patterns).confidence * ClaimedMultiplier(Head(patterns))
           ELSE 0

\* C4: every retained pattern adds confidence x multiplier to the weighted
\* sum of its own signal and to the total weight, the multiplier being 1.5
\* for the four reversal detectors, 1.3 for the breakout detector, 1.0 for
\* triangle, flag and pennant, 0.8 for candlestick patterns, and 0.5 for
\* category Other.
C4_CategoryWeights ==
    /\ Reported =>
          /\ \A s \in Signals : vote[s] = ClaimedWeight(report.all_patterns, s)
          /\ vote.total_weight = ClaimedWeight(report.all_patterns, "any")
    /\ category_multiplier("Other") = 5

\* a vote over a reversal pattern and a candlestick pattern of different
\* signals
C4_Witness ==
    /\ Reported
    /\ Len(report.all_patterns) = 2
    /\ report.all_patterns[1].category = "Reversal"
    /\ report.all_patterns[2].category = "Candlestick"
    /\ report.all_patterns[1].signal # report.all_patterns[2].signal


\* ------------------------------------------------------------ the scorer
\* the call has returned the dict of lines 555-580
Scored == step = "done" /\ "buy_score" \in decision.keys

\* C5: the scorer returns BUY exactly when the final buy_score is strictly
\* greater than the final sell_score, SELL exactly when sell_score is
\* strictly greater, HOLD with confidence 30 when the scores are equal and
\* not both zero, and HOLD with confidence 0 when both are zero.
C5_FinalSignal ==
    Scored =>
        /\ decision.buy_score = buy_score
        /\ decision.sell_score = sell_score
        /\ decision.signal = "BUY" <=> buy_score > sell_score
        /\ decision.signal = "SELL" <=> sell_score > buy_score
        /\ (buy_score = sell_score /\ buy_score + sell_score # 0)
              => decision.signal = "HOLD" /\ decision.confidence = 300
        /\ (buy_score = 0 /\ sell_score = 0)
              => decision.signal = "HOLD" /\ decision.confidence = 0

C5_Witness ==
    /\ Scored
    /\ buy_score = sell_score
    /\ buy_score > 0
    /\ decision.signal = "HOLD"
    /\ decision.confidence = 300

\* min(90, |b-s| / max(b+s, 1) * 100) + min(10, |b-s| * 5) as the fraction
\* ExactNum / ExactDen, b and s in twentieths of a point
ExactDen(b, s) == 4 * Max2(b + s, Point)

ExactNum(b, s) ==
    Min2(90 * ExactDen(b, s), 400 * Abs(b - s))
    + Min2(10 * ExactDen(b, s), Abs(b - s) * Max2(b + s, Point))

\* C6 as stated: for final scores that differ, the confidence equals
\* min(90, |buy-sell| / max(buy+sell, 1) * 100) + min(10, |buy-sell| * 5)
\* clamped into [0, 95].
C6_AsStated ==
    (Scored /\ buy_score # sell_score) =>
        decision.confidence * ExactDen(buy_score, sell_score)
            = Min2(950 * ExactDen(buy_score, sell_score),
                   10 * ExactNum(buy_score, sell_score))

\* C6 amended: for final scores that differ, the confidence is that value
\* rounded to one decimal place and then clamped into [0, 95]; the
\* confidence of every decision lies in [0, 95].
C6_RoundedConfidence ==
    step = "done" =>
        /\ decision.confidence \in 0..950
        /\ (Scored /\ buy_score # sell_score) =>
              LET num == ExactNum(buy_score, sell_score)
                  den == ExactDen(buy_score, sell_score)
              IN IF 10 * num >= 950 * den
                 THEN decision.confidence = 950
                 ELSE 2 * Abs(10 * num - decision.confidence * den) <= den

C6_Witness ==
    /\ Scored
    /\ buy_score = 2 * Point
    /\ sell_score = Point
    /\ decision.confidence = 383

\* C7: for the same inputs the buy_score under regime BEARISH is never
\* greater than the buy_score under regime NEUTRAL.
C7_BearishNeverRaisesBuy ==
    market_condition = "BEARISH" => buy_score <= neutral.buy_score

C7_Witness ==
    /\ Scored
    /\ market_condition = "BEARISH"
    /\ neutral.buy_score > 0
    /\ buy_score = neutral.buy_score
    /\ sell_score > neutral.sell_score

\* C8: the market-regime step subtracts from buy_score and never subtracts
\* from sell_score when the regime is BEARISH, adds a flat bonus to
\* buy_score when the regime is BULLISH, and changes neither score when the
\* regime is NEUTRAL.
C8_AsStated ==
    [][step = "regime" =>
          /\ market_condition = "BEARISH" =>
                buy_score' < buy_score /\ sell_score' >= sell_score
          /\ market_condition = "BULLISH" =>
                buy_score' = buy_score + Point /\ sell_score' = sell_score
          /\ market_condition = "NEUTRAL" =>
                buy_score' = buy_score /\ sell_score' = sell_score]_vars

\* thresholds of the only fundamental and liquidity test of the repository,
\* analyze_stock_from_news: market cap 5e9, mean volume 100000
GateMarketCap == 5

GateVolume == 100

GateReasons == {"Market cap below threshold", "Average volume below threshold"}

\* C9: whenever the market capitalisation or the average volume is below the
\* threshold, the scoring call returns HOLD with confidence 0 and a named
\* gate reason, whatever the other inputs are.
C9_AsStated ==
    (Scored /\ (stock_info.marketCap < GateMarketCap
                \/ stock_info.avg_volume < GateVolume)) =>
        /\ decision.signal = "HOLD"
        /\ decision.confidence = 0
        /\ \E i \in DOMAIN decision.reasons : decision.reasons[i] \in GateReasons

\* the columns the check of an indicator step depends on
StepColumns(s) ==
    CASE s = "rsi" -> {"RSI"}
      [] s = "macd" -> {"MACD", "MACD_signal", "MACD_histogram"}
      [] s = "ma" -> {"SMA_20", "SMA_50", "SMA_200"}
      [] s = "bb" -> {"BB_upper", "BB_lower", "BB_middle"}
      [] s = "volume" -> {"Volume_SMA"}
      [] s = "adx" -> {"ADX"}
      [] OTHER -> {}

\* C10: a missing indicator column makes the scorer skip the check that
\* depends on it; with all indicator columns absent and no pattern, position
\* or regime contribution, buy_score = sell_score = 0 and the decision is
\* HOLD with confidence 0.
C10_MissingColumns ==
    /\ [][~(StepColumns(step) \subseteq columns) =>
             buy_score' = buy_score /\ sell_score' = sell_score]_vars
    /\ [](( /\ Scored
            /\ columns = {}
            /\ pattern_analysis.overall_signal = "HOLD"
            /\ ~holding_info.present \/ holding_info.pnl_percent \in -10..30
            /\ market_condition = "NEUTRAL" )
          => /\ buy_score = 0
             /\ sell_score = 0
             /\ decision.signal = "HOLD"
             /\ decision.confidence = 0)

C10_Witness ==
    /\ Scored
    /\ columns = {}
    /\ pattern_analysis.overall_signal = "HOLD"
    /\ pattern_analysis.top_3_patterns # <<>>
    /\ holding_info.present
    /\ market_condition = "NEUTRAL"
    /\ decision.signal = "HOLD"
    /\ decision.confidence = 0


\* C11: generate_enhanced_signals returns a decision for every well-formed
\* bar series, a series of a few bars included, and lets no exception
\* escape; for an empty or missing daily series the decision is HOLD with
\* confidence 0.
C11_Total ==
    /\ step # "raised"
    /\ step = "done" =>
          /\ decision.signal \in Signals
          /\ decision.confidence \in 0..950
          /\ ~Scored => /\ decision.signal = "HOLD"
                        /\ decision.confidence = 0
                        /\ decision.reasons = <<"No data available">>

C11_Witness ==
    /\ step = "done"
    /\ ~Scored
    /\ decision.signal = "HOLD"
    /\ decision.confidence = 0


\* the scoring calls of a run: none writes the flag and all read one value
C12_ReadersAgree ==
    /\ [](Cardinality(run.regimes) <= 1
          /\ run.regimes \subseteq {market_condition})
    /\ [][run.phase = "holdings" => market_condition' = market_condition]_vars

\* C12: within one portfolio run the flag market_condition is written once,
\* by assess_market_condition, before the first per-holding scoring call; no
\* scoring call writes it, and every scoring call of the run reads the same
\* regime value.
C12_AsStated ==
    /\ [](run.phase = "holdings" => run.writes = 1)
    /\ C12_ReadersAgree


\* a run of three consecutive recent extrema, as <<left, middle, right>>
Triples(extrema) ==
    LET recent == LastOf(extrema, 5)
    IN { <<recent[i], recent[i + 1], recent[i + 2]>> :
           i \in 1..(Len(recent) - 2) }

HeadAndShouldersResult ==
    detect.name = "Head and Shoulders" /\ detect.result.pattern # None

InverseResult ==
    detect.name = "Inverse Head and Shoulders" /\ detect.result.pattern # None

\* C15: a Head and Shoulders is reported only for three consecutive recent
\* peaks whose middle one is strictly higher than both neighbours, and an
\* Inverse Head and Shoulders only for three consecutive recent valleys
\* whose middle one is strictly lower than both; a triple whose middle
\* equals or is less extreme than a side is never the reported one.
C15_StrictHead ==
    /\ HeadAndShouldersResult =>
          LET k == detect.result.key_levels
          IN /\ <<k[2], k[1], k[3]>> \in Triples(detect.series.peaks5)
             /\ k[1] > k[2]
             /\ k[1] > k[3]
    /\ InverseResult =>
          LET k == detect.result.key_levels
          IN /\ <<k[2], k[1], k[3]>> \in Triples(detect.series.valleys5)
             /\ k[1] < k[2]
             /\ k[1] < k[3]

\* a match on a series whose recent peaks also hold a level triple with the
\* middle peak equal to its neighbours
C15_Witness ==
    /\ HeadAndShouldersResult
    /\ \E t \in Triples(detect.series.peaks5) : t[1] = t[2] /\ t[2] = t[3]


\* C19: a matched Head and Shoulders is SELL exactly when the final close
\* is at least 1% below the neckline and HOLD otherwise; a matched Inverse
\* Head and Shoulders is BUY exactly when the final close is at least 1%
\* above the neckline and HOLD otherwise.
C19_AsStated ==
    /\ HeadAndShouldersResult =>
          LET neckline == detect.result.key_levels[4]
          IN detect.result.signal =
                 IF 100 * detect.series.close <= 99 * neckline
                 THEN "SELL" ELSE "HOLD"
    /\ InverseResult =>
          LET neckline == detect.result.key_levels[4]
          IN detect.result.signal =
                 IF 100 * detect.series.close >= 101 * neckline
                 THEN "BUY" ELSE "HOLD"


\* the positions of the valid triples among the recent peaks
ValidTriples(recent) ==
    { i \in 1..(Len(recent) - 2) :
        /\ recent[i + 1] > recent[i]
        /\ recent[i + 1] > recent[i + 2]
        /\ 50 * Abs(recent[i] - recent[i + 2])
              <= Max2(recent[i], recent[i + 2]) }

\* the valid pairs <<i, j>> of recent peaks, lows[k] lying between peaks k
\* and k + 1
ValidPairs(recent, lows) ==
    { p \in (1..Len(recent)) \X (1..Len(recent)) :
        /\ p[1] < p[2]
        /\ 100 * Abs(recent[p[1]] - recent[p[2]])
              <= 3 * Max2(recent[p[1]], recent[p[2]])
        /\ \E k \in p[1]..(p[2] - 1) :
              /\ \A m \in p[1]..(p[2] - 1) : lows[k] <= lows[m]
              /\ 20 * (recent[p[1]] + recent[p[2]] - 2 * lows[k])
                    > recent[p[1]] + recent[p[2]] }

\* the positions of the valid triples among the recent valleys
ValidValleyTriples(recent) ==
    { i \in 1..(Len(recent) - 2) :
        /\ recent[i + 1] < recent[i]
        /\ recent[i + 1] < recent[i + 2]
        /\ 50 * Abs(recent[i] - recent[i + 2])
              <= Max2(recent[i], recent[i + 2]) }

\* the valid pairs <<i, j>> of recent valleys, highs[k] lying between
\* valleys k and k + 1
ValidValleyPairs(recent, highs) ==
    { p \in (1..Len(recent)) \X (1..Len(recent)) :
        /\ p[1] < p[2]
        /\ 100 * Abs(recent[p[1]] - recent[p[2]])
              <= 3 * Max2(recent[p[1]], recent[p[2]])
        /\ \E k \in p[1]..(p[2] - 1) :
              /\ \A m \in p[1]..(p[2] - 1) : highs[k] >= highs[m]
              /\ 20 * (2 * highs[k] - recent[p[1]] - recent[p[2]])
                    > recent[p[1]] + recent[p[2]] }

\* p comes before q in the order i ascending, then j ascending
PairBefore(p, q) == p[1] < q[1] \/ (p[1] = q[1] /\ p[2] <= q[2])

\* C20: on a long enough series the two head-and-shoulders detectors
\* report the earliest valid triple of consecutive recent extrema, and the
\* double top and double bottom detectors the first valid pair (i, j) in
\* the order i ascending then j ascending; with no valid candidate none of
\* them reports a pattern.
C20_FirstValid ==
    /\ (detect.name = "Head and Shoulders" /\ detect.series.len >= 40) =>
          LET recent == LastOf(detect.series.peaks5, 5)
              valid == ValidTriples(recent)
          IN IF valid = {} THEN detect.result.pattern = None
             ELSE LET i == CHOOSE i \in valid : \A k \in valid : i <= k
                  IN /\ detect.result.pattern = "Head and Shoulders"
                     /\ SubSeq(detect.result.key_levels, 1, 3)
                           = <<recent[i + 1], recent[i], recent[i + 2]>>
    /\ (detect.name = "Double Top" /\ detect.series.len >= 30) =>
          LET recent == LastOf(detect.series.peaks10, 10)
              valid == ValidPairs(recent, LastOf(detect.series.lows10, 9))
          IN IF valid = {} THEN detect.result.pattern = None
             ELSE LET p == CHOOSE p \in valid :
                               \A q \in valid : PairBefore(p, q)
                  IN /\ detect.result.pattern = "Double Top"
                     /\ SubSeq(detect.result.key_levels, 1, 2)
                           = <<recent[p[1]], recent[p[2]]>>
    /\ (detect.name = "Inverse Head and Shoulders"
        /\ detect.series.len >= 40) =>
          LET recent == LastOf(detect.series.valleys5, 5)
              valid == ValidValleyTriples(recent)
          IN IF valid = {} THEN detect.result.pattern = None
             ELSE LET i == CHOOSE i \in valid : \A k \in valid : i <= k
                  IN /\ detect.result.pattern = "Inverse Head and Shoulders"
                     /\ SubSeq(detect.result.key_levels, 1, 3)
                           = <<recent[i + 1], recent[i], recent[i + 2]>>
    /\ (detect.name = "Double Bottom" /\ detect.series.len >= 30) =>
          LET recent == LastOf(detect.series.valleys10, 10)
              valid == ValidValleyPairs(recent,
                                        LastOf(detect.series.highs10, 9))
          IN IF valid = {} THEN detect.result.pattern = None
             ELSE LET p == CHOOSE p \in valid :
                               \A q \in valid : PairBefore(p, q)
                  IN /\ detect.result.pattern = "Double Bottom"
                     /\ SubSeq(detect.result.key_levels, 1, 2)
                           = <<recent[p[1]], recent[p[2]]>>

\* a Head and Shoulders report on a series with a later valid triple of
\* other peaks
C20_Witness ==
    /\ HeadAndShouldersResult
    /\ Len(detect.series.peaks5) > 3
    /\ LET recent == LastOf(detect.series.peaks5, 5)
       IN \E i, k \in ValidTriples(recent) :
             /\ i < k
             /\ <<recent[i], recent[i + 2]>> # <<recent[k], recent[k + 2]>>


\* the extrema the clusterer was called on
Clustered ==
    IF detect.name = "find_support_levels" THEN detect.series.valleys50
    ELSE detect.series.peaks50

ClustererReturned ==
    detect.name \in {"find_support_levels", "find_resistance_levels"}

\* the extrema within the tolerance of extremum i, itself included
TouchesOf(prices, i) ==
    { j \in 1..Len(prices) :
        j = i \/ 50 * Abs(prices[i] - prices[j]) <= prices[i] }

\* the extrema within 1% of 100 rupees
Around100(prices) == { j \in 1..Len(prices) : prices[j] \in 990..1010 }

\* exactly three touches around 100: three extrema within 1% of it, and
\* fewer than three others, each further than 2% from these three
ThreeTouches(prices) ==
    /\ Cardinality(Around100(prices)) = 3
    /\ Len(prices) < 6
    /\ \A i \in Around100(prices), j \in 1..Len(prices) :
          j \notin Around100(prices) =>
             50 * Abs(prices[i] - prices[j]) > Max2(prices[i], prices[j])

\* C16: every level the clusterer returns has a touches count of at least
\* min_touches that is the number of extrema within 2% of one candidate
\* extremum, itself included; for extrema of which exactly three lie
\* within 1% of 100 and fewer than three elsewhere, min_touches = 3 gives
\* exactly one level, with touches = 3, and min_touches = 4 gives none.
C16_Touches ==
    ClustererReturned =>
       /\ \A n \in 1..Len(detect.levels) :
             /\ detect.levels[n].touches >= detect.min_touches
             /\ \E i \in 1..Len(Clustered) :
                   detect.levels[n].touches
                       = Cardinality(TouchesOf(Clustered, i))
       /\ ThreeTouches(Clustered) =>
             IF detect.min_touches = 3
             THEN /\ Len(detect.levels) = 1
                  /\ detect.levels[1].touches = 3
             ELSE detect.levels = <<>>

\* three extrema at 99, 100 and 101 clustered with min_touches = 3
C16_Witness ==
    /\ ClustererReturned
    /\ detect.min_touches = 3
    /\ Len(Clustered) = 3
    /\ {Clustered[j] : j \in 1..3} = {990, 1000, 1010}
    /\ Len(detect.levels) = 1


BreakoutReturned ==
    detect.name = "Breakout Patterns" /\ detect.series.len >= 50

\* the ranked levels the breakout detector works on
Resistances == find_levels(detect.series.peaks50, 3)
Supports == find_levels(detect.series.valleys50, 3)

\* the final close is above the strongest resistance level x 1.005
AboveResistance ==
    /\ Resistances # <<>>
    /\ 1000 * detect.series.close * Resistances[1].level.den
          > 1005 * Resistances[1].level.num

\* the final close is below the strongest support level x 0.995
BelowSupport ==
    /\ Supports # <<>>
    /\ 1000 * detect.series.close * Supports[1].level.den
          < 995 * Supports[1].level.num

ProximityReports ==
    {"Approaching Resistance", "Approaching Support", "Near Support",
     "Near Resistance"}

\* C17: the breakout detector returns BUY "Resistance Breakout" whenever
\* the close is above the strongest resistance x 1.005, otherwise SELL
\* "Support Breakdown" whenever the close is below the strongest support
\* x 0.995, and a proximity report only when neither holds.
C17_AsStated ==
    BreakoutReturned =>
       /\ AboveResistance =>
             /\ detect.result.signal = "BUY"
             /\ detect.result.pattern = "Resistance Breakout"
       /\ (~AboveResistance /\ BelowSupport) =>
             /\ detect.result.signal = "SELL"
             /\ detect.result.pattern = "Support Breakdown"
       /\ detect.result.pattern \in ProximityReports =>
             ~AboveResistance /\ ~BelowSupport

\* the final close is less than 2% under the strongest resistance level
NearResistance ==
    /\ Resistances # <<>>
    /\ 100 * detect.series.close * Resistances[1].level.den
          > 98 * Resistances[1].level.num

\* the final close is less than 2% over the strongest support level
NearSupport ==
    /\ Supports # <<>>
    /\ 100 * detect.series.close * Supports[1].level.den
          < 102 * Supports[1].level.num

\* C18: with neither breakout condition met, a close less than 2% under
\* the strongest resistance is reported as "Approaching Resistance", and
\* otherwise a close less than 2% over the strongest support as
\* "Approaching Support", both with signal HOLD and confidence exactly 60.
C18_Approaching ==
    (BreakoutReturned /\ ~AboveResistance /\ ~BelowSupport) =>
       /\ NearResistance =>
             /\ detect.result.pattern = "Approaching Resistance"
             /\ detect.result.signal = "HOLD"
             /\ detect.result.confidence = Frac(60, 1)
       /\ (~NearResistance /\ NearSupport) =>
             /\ detect.result.pattern = "Approaching Support"
             /\ detect.result.signal = "HOLD"
             /\ detect.result.confidence = Frac(60, 1)

\* a resistance level of 100 with three touches and a final close of 100.2
C18_Witness ==
    /\ BreakoutReturned
    /\ ~BelowSupport
    /\ detect.series.peaks50 = <<1000, 1000, 1000>>
    /\ detect.series.close = 1002
    /\ detect.result.pattern = "Approaching Resistance"


\* the minimum lookback of each geometric detector
MinimumLookback ==
    [n \in {"Head and Shoulders", "Inverse Head and Shoulders",
            "Triangle Patterns"} |-> 40]
    @@ [n \in {"Double Top", "Double Bottom", "Flag Patterns"} |-> 30]
    @@ [n \in {"Pennant Patterns"} |-> 25]
    @@ [n \in {"Breakout Patterns"} |-> 50]

GeometricDetectors == DOMAIN MinimumLookback

\* C13: every geometric detector called on a series shorter than its own
\* minimum lookback returns pattern null, signal HOLD and confidence 0.
C13_ShortSeries ==
    (/\ detect.name \in GeometricDetectors
     /\ detect.series.len < MinimumLookback[detect.name]) =>
       /\ detect.result.pattern = None
       /\ detect.result.signal = "HOLD"
       /\ detect.result.confidence = Frac(0, 1)

\* detect_head_and_shoulders has returned on 39 bars among whose peaks
\* there is a valid head and shoulders
C13_Witness ==
    /\ detect.name = "Head and Shoulders"
    /\ detect.series.len = 39
    /\ ValidTriples(LastOf(detect.series.peaks5, 5)) # {}
    /\ detect.result.pattern = None

\* a confidence, held as a fraction, is within [0, 100]
InPercentRange(confidence) ==
    /\ confidence.den > 0
    /\ confidence.num >= 0
    /\ confidence.num <= 100 * confidence.den

\* C14: every result of a geometric detector, every candlestick pattern,
\* the candlestick vote and the aggregator's report carry a signal in
\* {BUY, SELL, HOLD} and a confidence within [0, 100].
C14_SignalAndConfidence ==
    /\ detect.name \in GeometricDetectors =>
          /\ detect.result.signal \in Signals
          /\ InPercentRange(detect.result.confidence)
    /\ detect.name = "Candlestick Patterns" =>
          /\ detect.result.top_signal \in Signals
          /\ InPercentRange(detect.result.confidence)
          /\ \A n \in 1..Len(detect.result.patterns) :
                /\ detect.result.patterns[n].signal \in Signals
                /\ InPercentRange(detect.result.patterns[n].confidence)
    /\ Reported =>
          /\ report.overall_signal \in Signals
          /\ report.overall_confidence \in 0..100
          /\ \A n \in 1..Len(report.all_patterns) :
                /\ report.all_patterns[n].signal \in Signals
                /\ report.all_patterns[n].confidence \in 0..100

\* a volume-confirmed breakout above a level with four touches, whose
\* confidence the caps hold at 90
C14_Witness ==
    /\ detect.name = "Breakout Patterns"
    /\ detect.result.pattern = "Resistance Breakout"
    /\ detect.result.key_levels[3] = 4
    /\ detect.result.confidence = Frac(90, 1)


\* the pairs <<i, j>> of recent peaks within the 3% tolerance whose
\* retracement is at least 5% of the peak average
RetracedPairs(recent, lows) ==
    { p \in (1..Len(recent)) \X (1..Len(recent)) :
        /\ p[1] < p[2]
        /\ 100 * Abs(recent[p[1]] - recent[p[2]])
              <= 3 * Max2(recent[p[1]], recent[p[2]])
        /\ \E k \in p[1]..(p[2] - 1) :
              /\ \A m \in p[1]..(p[2] - 1) : lows[k] <= lows[m]
              /\ 20 * (recent[p[1]] + recent[p[2]] - 2 * lows[k])
                    >= recent[p[1]] + recent[p[2]] }

\* the pairs <<i, j>> of recent valleys within the 3% tolerance whose
\* rally is at least 5% of the valley average
RalliedPairs(recent, highs) ==
    { p \in (1..Len(recent)) \X (1..Len(recent)) :
        /\ p[1] < p[2]
        /\ 100 * Abs(recent[p[1]] - recent[p[2]])
              <= 3 * Max2(recent[p[1]], recent[p[2]])
        /\ \E k \in p[1]..(p[2] - 1) :
              /\ \A m \in p[1]..(p[2] - 1) : highs[k] >= highs[m]
              /\ 20 * (2 * highs[k] - recent[p[1]] - recent[p[2]])
                    >= recent[p[1]] + recent[p[2]] }

\* C21: on a long enough series detect_double_top reports "Double Top"
\* exactly when some pair of recent peaks differs by at most 3% of the
\* higher peak and the low between them retraces at least 5% of the peak
\* average, a retracement of exactly 5% included; detect_double_bottom
\* mirrors it with valleys and the rally between them.
C21_AsStated ==
    /\ (detect.name = "Double Top" /\ detect.series.len >= 30) =>
          (detect.result.pattern = "Double Top"
             <=> RetracedPairs(LastOf(detect.series.peaks10, 10),
                               detect.series.lows10) # {})
    /\ (detect.name = "Double Bottom" /\ detect.series.len >= 30) =>
          (detect.result.pattern = "Double Bottom"
             <=> RalliedPairs(LastOf(detect.series.valleys10, 10),
                              detect.series.highs10) # {})

\* levels a and b lie within 2% of each other, measured on the lower one
WithinTolerance(a, b) ==
    LET x == a.level.num * b.level.den
        y == b.level.num * a.level.den
    IN 50 * Abs(x - y) <= Min2(x, y)

\* C22: in the list the level clusterer returns no two levels lie within
\* the 2% tolerance of each other, and the list is ordered by
\* non-increasing strength (the touch count times a constant).
C22_AsStated ==
    ClustererReturned =>
        \A a \in 1..Len(detect.levels) : \A b \in 1..Len(detect.levels) :
            a < b =>
                /\ detect.levels[a].touches >= detect.levels[b].touches
                /\ ~WithinTolerance(detect.levels[a], detect.levels[b])

CandlestickReturned ==
    detect.name = "Candlestick Patterns" /\ detect.series.len >= 5

\* the patterns of the window that are strictly more confident than c
MoreConfident(found, c) ==
    { k \in 1..Len(found) : FracLess(c.confidence, found[k].confidence) }

\* C23: detect_candlestick_patterns returns at most 3 patterns, the most
\* confident ones of the window in non-increasing confidence order, and its
\* overall signal is BUY when the summed BUY confidence of those patterns
\* is at least 20 above the summed SELL confidence, SELL in the symmetric
\* case and HOLD otherwise; a margin of exactly 20 calls BUY or SELL.
C23_AsStated ==
    CandlestickReturned =>
        LET found == patterns_found(detect.series.candles)
            top == detect.result.patterns
            buy_weight == signal_weight(top, "BUY")
            sell_weight == signal_weight(top, "SELL")
            buy_margin == ~FracLess(buy_weight, FracAdd(sell_weight, 20))
            sell_margin == ~FracLess(sell_weight, FracAdd(buy_weight, 20))
        IN /\ Len(top) = Min2(3, Len(found))
           /\ \A j \in 1..Len(top) :
                 /\ \E k \in 1..Len(found) : found[k] = top[j]
                 /\ Cardinality(MoreConfident(found, top[j])) < j
                 /\ j > 1 => ~FracLess(top[j - 1].confidence,
                                       top[j].confidence)
           /\ top # <<>> =>
                 detect.result.top_signal =
                     IF buy_margin THEN "BUY"
                     ELSE IF sell_margin THEN "SELL" ELSE "HOLD"
           /\ top = <<>> => detect.result.top_signal = "HOLD"

\* C24: the triangle detector reports a pattern only if the r squared of
\* the peak line and of the valley line are both at least 0.6, and the
\* pennant detector only if the r squared of the high line and of the low
\* line both exceed 0.5.
C24_AsStated ==
    /\ (detect.name = "Triangle Patterns"
           /\ detect.result.pattern # None) =>
          /\ detect.series.peak_r_squared >= 60
          /\ detect.series.valley_r_squared >= 60
    /\ (detect.name = "Pennant Patterns"
           /\ detect.result.pattern # None) =>
          /\ detect.series.high_r_squared > 50
          /\ detect.series.low_r_squared > 50

\* the triangle detector has fitted two lines well through enough extrema
TriangleFitted ==
    /\ detect.name = "Triangle Patterns"
    /\ detect.series.len >= 40
    /\ detect.series.tri_peaks >= 3 /\ detect.series.tri_valleys >= 3
    /\ detect.series.peak_r_squared >= 60
    /\ detect.series.valley_r_squared >= 60

\* both lines converge: peak slope < -0.05 and valley slope > 0.05
Converging ==
    detect.series.peak_slope < -5 /\ detect.series.valley_slope > 5

\* C25: given two well-fitted trendlines, whenever both lines converge
\* (peak slope < -0.05 and valley slope > 0.05) the result is "Symmetrical
\* Triangle"; otherwise flat resistance with rising support gives
\* "Ascending Triangle", declining resistance with flat support gives
\* "Descending Triangle", and any other slope combination no pattern.
C25_AsStated ==
    TriangleFitted =>
        detect.result.pattern =
            IF Converging THEN "Symmetrical Triangle"
            ELSE IF /\ Abs(detect.series.peak_slope) < 10
                    /\ detect.series.valley_slope > 10
            THEN "Ascending Triangle"
            ELSE IF /\ detect.series.peak_slope < -10
                    /\ Abs(detect.series.valley_slope) < 10
            THEN "Descending Triangle"
            ELSE None

\* the run has just scored a holding on whose bars the breakout detector
\* may have reported, all indicators and the position being neutral and
\* the regime NEUTRAL
QuietPatternScored ==
    /\ run.scored # <<>>
    /\ run.scored[1] \in PatternInputs
    /\ run.scored[1].rsi = 50
    /\ run.scored[1].holding.pnl_percent = 0
    /\ market_condition = "NEUTRAL"

\* C26: the scorer adds the aggregator's overall BUY (SELL) signal to
\* buy_score (sell_score) as the overall confidence divided by 20, halved
\* when the latest volume is below 1.5 times its moving average; an overall
\* HOLD adds nothing. Scores are in twentieths of a point; with every other
\* step neutral the only further contribution is the point the volume step
\* gives the leading side on a volume spike.
C26_AsStated ==
    QuietPatternScored =>
        LET in == run.scored[1]
            pa == decision.patterns
            low == 2 * in.volume < 3 * in.volume_sma
            spike == 2 * in.volume > 3 * in.volume_sma
            twice_pattern == IF low THEN pa.overall_confidence
                             ELSE 2 * pa.overall_confidence
            twice_volume == IF spike THEN 2 * Point ELSE 0
        IN /\ pa.overall_signal = "BUY" =>
                 /\ 2 * decision.buy_score = twice_pattern + twice_volume
                 /\ decision.sell_score = 0
           /\ pa.overall_signal = "SELL" =>
                 /\ 2 * decision.sell_score = twice_pattern + twice_volume
                 /\ decision.buy_score = 0
           /\ pa.overall_signal = "HOLD" =>
                 decision.buy_score = 0 /\ decision.sell_score = 0

\* the scores of a holding after the pattern, RSI, MACD, moving-average and
\* Bollinger contributions
BeforeVolume(in) ==
    LET cols == in.columns
        s0 == integrate_patterns(NoScores, analyze_patterns(in.df))
        s1 == rsi_step(s0, "RSI" \in cols, in.rsi)
        s2 == macd_step(s1, has_columns(cols, {"MACD", "MACD_signal",
                                               "MACD_histogram"}),
                        in.bars, in.macd_last, in.macd_prev)
        s3 == ma_step(s2, has_columns(cols, {"SMA_20", "SMA_50", "SMA_200"}),
                      in.close, in.sma20, in.sma50, in.sma200)
    IN bb_step(s3, has_columns(cols, {"BB_upper", "BB_lower", "BB_middle"}),
               in.close, in.bb_upper, in.bb_lower, in.close)

\* the scores sc after the position, regime and multi-timeframe
\* contributions
AfterVolume(in, sc) ==
    LET cols == in.columns
        tf == timeframe_vote(timeframe_vote([buy |-> 0, sell |-> 0],
                                            "1w:RSI" \in cols, in.weekly_rsi),
                             "RSI" \in cols, in.rsi)
    IN mtf_step(regime_step(position_step(sc, in.holding), market_condition),
                tf)

\* the latest volume is above 1.5 times Volume_SMA
VolumeSpike(in) ==
    "Volume_SMA" \in in.columns /\ 2 * in.volume > 3 * in.volume_sma

\* C27: on a volume spike the scorer adds 1 to whichever of buy_score and
\* sell_score is strictly ahead after the pattern, RSI, MACD,
\* moving-average and Bollinger contributions and before the position,
\* regime and multi-timeframe contributions; on a tie at that point, and
\* without a spike, it adds nothing.
C27_VolumeLeader ==
    run.scored # <<>> =>
        LET in == run.scored[1]
            before == BeforeVolume(in)
            lead_buy == VolumeSpike(in)
                        /\ before.buy_score > before.sell_score
            lead_sell == VolumeSpike(in)
                         /\ before.sell_score > before.buy_score
            confirmed ==
                [before EXCEPT
                    !.buy_score = IF lead_buy THEN @ + Point ELSE @,
                    !.sell_score = IF lead_sell THEN @ + Point ELSE @]
            final == AfterVolume(in, confirmed)
        IN /\ decision.buy_score = final.buy_score
           /\ decision.sell_score = final.sell_score

\* the buy side led by the 2 points of an oversold RSI when the volume
\* spiked and got the point, before the loss of the position gave the sell
\* side 2 points
C27_Witness ==
    /\ run.scored # <<>>
    /\ VolumeSpike(run.scored[1])
    /\ BeforeVolume(run.scored[1]).buy_score = 2 * Point
    /\ BeforeVolume(run.scored[1]).sell_score = 0
    /\ run.scored[1].holding.pnl_percent = -25
    /\ market_condition = "NEUTRAL"
    /\ decision.buy_score = 3 * Point
    /\ decision.sell_score = 2 * Point

\* C28: every report analyze_patterns returns, for an empty series as well
\* as a non-empty one, has the same shape: patterns_detected is an integer
\* equal to the number of entries of all_patterns, top_3_patterns has at
\* most 3 entries and is the prefix of all_patterns, and overall_signal is
\* BUY, SELL or HOLD.
C28_AsStated ==
    pc = "returned" =>
        /\ report.overall_signal \in Signals
        /\ Len(report.top_3_patterns) <= 3
        /\ "all_patterns" \in report.keys
        /\ report.patterns_detected.type = "int"
        /\ report.patterns_detected.value = Len(report.all_patterns)
        /\ report.top_3_patterns
              = SubSeq(report.all_patterns, 1, Len(report.top_3_patterns))

\* C29: in the position step a holding with pnl_percent above 50 receives
\* the "Exceptional profit" reason and adds 2 to sell_score, and a holding
\* with pnl_percent above 30 and at most 50 receives the "Strong profit"
\* reason and adds 1.
C29_AsStated ==
    [][(step = "position" /\ step' = "regime" /\ holding_info'.present) =>
          LET pnl_percent == holding_info'.pnl_percent
          IN /\ pnl_percent > 50 =>
                   /\ sell_score' = sell_score + 2 * Point
                   /\ signals' = Append(signals, "Exceptional profit")
             /\ (pnl_percent > 30 /\ pnl_percent <= 50) =>
                   /\ sell_score' = sell_score + Point
                   /\ signals' = Append(signals, "Strong profit")]_vars

\* C30: after a call of assess_market_condition, whatever the stored
\* regime was before the call, the stored flag market_condition equals the
\* value the call returned, on every path: a classified regime, empty index
\* data and an exception during the assessment.
C30_AsStated ==
    run.phase = "holdings" => market_condition = run.returned
============================================================================
